---- MODULE Spec2Model ----
(***************************************************************************)
(* Model of the oracle-arbitrated game engine of the Discord bot:          *)
(*   src/src/games/utils/base_game.js   BaseGame (the game session)        *)
(*   src/unnamed/part_004               ChessGame (the chess adapter)      *)
(*   src/src/games/game_manager.js      GameManager (the session registry) *)
(*   src/src/games/utils/board_renderer.js  renderChessBoard               *)
(* and of the bot around it:                                               *)
(*   src/unnamed/part_001   memory_manager.js, bot.js and ia_service.js    *)
(*   src/unnamed/part_002   user_analyzer.js                               *)
(*   src/unnamed/part_003   data_storage.js                                *)
(*   src/src/context_manager.js                                            *)
(*                                                                         *)
(* JavaScript values are encoded so that every field keeps one TLA+ type:  *)
(*   null / undefined in a string field  -> the strings "null"/"undefined" *)
(*   a number field                      -> [k |-> "num"|"nan"|"null", v]  *)
(*   a Date                              -> "Date(..)", its ISO text       *)
(*                                          -> "ISO(..)"                   *)
(* A handler is an async function: it runs atomically between two awaits,  *)
(* so every action below is the code between two awaits of one handler.    *)
(***************************************************************************)
EXTENDS Integers, Sequences, FiniteSets, TLC

\* ------------------------------------------------------------------ bounds
\* New move commands are accepted only while moveHistory is shorter than this.
MaxMoves == 2
\* At most this many file writes and message sends fail in one run.
MaxIOFailures == 1
\* At most this many commands start while another one is being handled.
MaxOverlaps == 1
\* At most this many messages come in on the channel.
MaxMessages == 3
\* At most this many mentions of the bot by the one user.
MaxMentions == 11

\* ------------------------------------------------------- program constants
\* base_game.js:193  const MAX_INTENTOS = 3
MAX_INTENTOS == 3
\* context_manager.js:61  recentMessages keeps the last 50 messages
RECENT_MESSAGES == 50
\* memory_manager.js:6  const MESSAGE_HISTORY_LIMIT = 50
MESSAGE_HISTORY_LIMIT == 50
\* memory_manager.js:62  interactionCount % 10 === 0
ANALYSIS_INTERVAL == 10
\* user_analyzer.js:16  getRecentMessagesForAnalysis(userId, 20)
ANALYSIS_MESSAGES == 20

\* ------------------------------------------------------------- JS scalars
Null == "null"
Undefined == "undefined"

Num(n) == [k |-> "num", v |-> n]
NaN == [k |-> "nan", v |-> 0]
NullNum == [k |-> "null", v |-> 0]

\* x++ on a number field: NaN stays NaN, null counts as 0.
Increment(x) ==
  CASE x.k = "num" -> Num(x.v + 1)
    [] x.k = "nan" -> NaN
    [] OTHER -> Num(1)

\* parseInt(text, 10) on the texts the model uses; undefined and non-numeric
\* text give NaN.
DigitVal == [d \in {"0", "1", "2", "3", "4", "5", "6", "7", "8"} |->
  CASE d = "0" -> 0 [] d = "1" -> 1 [] d = "2" -> 2 [] d = "3" -> 3
    [] d = "4" -> 4 [] d = "5" -> 5 [] d = "6" -> 6 [] d = "7" -> 7
    [] OTHER -> 8]

ParseInt(text) == IF text \in DOMAIN DigitVal THEN Num(DigitVal[text]) ELSE NaN

\* new Date(): the model has one instant; only the presence of a time stamp
\* matters to the session logic.
DateNow == "Date(t0)"

\* Date.prototype.toISOString and new Date(isoText).
ToISOString(d) == IF d = "Date(t0)" THEN "ISO(t0)" ELSE "ISO(invalid)"
DateFromISO(s) == IF s = "ISO(t0)" THEN "Date(t0)" ELSE "Date(invalid)"

\* ------------------------------------------------------------ the players
AI_ID == "AI"
User1 == "u1"
User2 == "u2"
Outsider == "u3"
Users == {User1, User2, Outsider}

\* ------------------------------------------------------------ game types
\* game_manager.js:13-16
GAME_TYPES == {"ajedrez", "chess"}

\* --------------------------------------------------------- the chess board
EmptyRow == <<" ", " ", " ", " ", " ", " ", " ", " ">>

InitialBoard == <<
  <<"r", "n", "b", "q", "k", "b", "n", "r">>,
  <<"p", "p", "p", "p", "p", "p", "p", "p">>,
  EmptyRow, EmptyRow, EmptyRow, EmptyRow,
  <<"P", "P", "P", "P", "P", "P", "P", "P">>,
  <<"R", "N", "B", "Q", "K", "B", "N", "R">> >>

\* ChessGame.initializeGameState
InitialChessState == [
  board |-> InitialBoard,
  perspective |-> "white",
  lastMove |-> Null,
  check |-> Null,
  possibleMoves |-> <<>>,
  castlingRights |-> [whiteKingSide |-> TRUE, whiteQueenSide |-> TRUE,
                      blackKingSide |-> TRUE, blackQueenSide |-> TRUE],
  enPassantTarget |-> Null,
  halfMoveClock |-> Num(0),
  fullMoveNumber |-> Num(1)]

\* ------------------------------------------------- FEN texts of the oracle
\* A FEN text is kept in its split form: `fields` is the number of blank
\* separated fields, `position` the ranks between the slashes, each rank the
\* sequence of its characters, `castling` the set of characters of field 3.
\* Fields beyond `fields` are undefined in the code and never read here.
FenAfterE4 == [
  fields |-> 6,
  position |-> <<
    <<"r", "n", "b", "q", "k", "b", "n", "r">>,
    <<"p", "p", "p", "p", "p", "p", "p", "p">>,
    <<"8">>, <<"8">>, <<"4", "P", "3">>, <<"8">>,
    <<"P", "P", "P", "P", "1", "P", "P", "P">>,
    <<"R", "N", "B", "Q", "K", "B", "N", "R">> >>,
  turn |-> "b", castling |-> {"K", "Q", "k", "q"}, enPassant |-> "e3",
  halfMove |-> "0", fullMove |-> "1"]

FenAfterE5 == [
  fields |-> 6,
  position |-> <<
    <<"r", "n", "b", "q", "k", "b", "n", "r">>,
    <<"p", "p", "p", "p", "1", "p", "p", "p">>,
    <<"8">>, <<"4", "p", "3">>, <<"4", "P", "3">>, <<"8">>,
    <<"P", "P", "P", "P", "1", "P", "P", "P">>,
    <<"R", "N", "B", "Q", "K", "B", "N", "R">> >>,
  turn |-> "w", castling |-> {"K", "Q"}, enPassant |-> "-",
  halfMove |-> "0", fullMove |-> "2"]

\* The position of FenAfterE4 cut after the en-passant field: no clocks.
FenNoClocks == [FenAfterE4 EXCEPT !.fields = 4]

\* The same position with its last rank missing, and as the position field
\* alone.
FenShortBoard == [FenAfterE4 EXCEPT !.position = SubSeq(FenAfterE4.position, 1, 7)]
FenBoardOnly == [FenAfterE4 EXCEPT !.fields = 1]

\* The same position cut after the castling field.
FenNoEnPassant == [FenAfterE4 EXCEPT !.fields = 3]

\* The same position with a fifth rank that names seven squares: 4P2.
FenNarrowRank == [FenAfterE4 EXCEPT !.position[5] = <<"4", "P", "2">>]

FenTable == [fenE4 |-> FenAfterE4, fenE5 |-> FenAfterE5, fenNoClocks |-> FenNoClocks,
             fenShortBoard |-> FenShortBoard, fenBoardOnly |-> FenBoardOnly,
             fenNoEnPassant |-> FenNoEnPassant, fenNarrowRank |-> FenNarrowRank]

\* ------------------------------------------------- ChessGame: FEN decoding
Blanks(n) == [i \in 1..n |-> " "]

\* updateBoardFromFEN, inner loop: one rank text to one board row. A digit
\* 1..8 stands for that many empty squares, any other character is a piece.
RECURSIVE DecodeRank(_)
DecodeRank(chars) ==
  IF chars = <<>> THEN <<>>
  ELSE (IF Head(chars) \in {"1", "2", "3", "4", "5", "6", "7", "8"}
          THEN Blanks(DigitVal[Head(chars)])
          ELSE <<Head(chars)>>) \o DecodeRank(Tail(chars))

\* updateBoardFromFEN(fen). The body runs in a try block whose catch only
\* logs: with fewer than 8 ranks rows[rowIndex].length throws before the
\* board is assigned; with fewer than 3 fields castling.includes throws
\* after the board was assigned; missing later fields are undefined and
\* parseInt(undefined) is NaN.
UpdateBoardFromFEN(st, fen) ==
  IF Len(fen.position) < 8 THEN st
  ELSE LET newBoard == [r \in 1..8 |-> DecodeRank(fen.position[r])]
           st1 == [st EXCEPT !.board = newBoard]
       IN IF fen.fields < 3 THEN st1
          ELSE [st1 EXCEPT
                 !.castlingRights = [whiteKingSide |-> "K" \in fen.castling,
                                     whiteQueenSide |-> "Q" \in fen.castling,
                                     blackKingSide |-> "k" \in fen.castling,
                                     blackQueenSide |-> "q" \in fen.castling],
                 !.enPassantTarget = IF fen.fields < 4 THEN Undefined
                                     ELSE IF fen.enPassant # "-" THEN fen.enPassant
                                     ELSE Null,
                 !.halfMoveClock = IF fen.fields < 5 THEN NaN ELSE ParseInt(fen.halfMove),
                 !.fullMoveNumber = IF fen.fields < 6 THEN NaN ELSE ParseInt(fen.fullMove)]

\* ------------------------------------------------- ChessGame: FEN encoding
\* '' + number, as generateFEN appends the clocks: NaN gives "NaN" and null
\* gives "null". The numbers of the model stay below 9.
NumberToString(x) ==
  CASE x.k = "nan" -> "NaN"
    [] x.k = "null" -> "null"
    [] OTHER -> CHOOSE d \in DOMAIN DigitVal : DigitVal[d] = x.v

\* this.state.board[row][col]: beyond the end of a row it is undefined, and
\* `fen += undefined` appends the text "undefined".
PieceAt(row, col) == IF col <= Len(row) THEN row[col] ELSE Undefined
PieceText(piece) ==
  IF piece = Undefined THEN <<"u", "n", "d", "e", "f", "i", "n", "e", "d">> ELSE <<piece>>

\* generateFEN, inner loop: one board row to its rank text, from column col
\* on with emptySquares empty squares counted so far.
RECURSIVE EncodeRank(_, _, _)
EncodeRank(row, col, emptySquares) ==
  LET run == IF emptySquares > 0 THEN <<NumberToString(Num(emptySquares))>> ELSE <<>>
  IN IF col > 8 THEN run
     ELSE IF PieceAt(row, col) = " " THEN EncodeRank(row, col + 1, emptySquares + 1)
     ELSE run \o PieceText(PieceAt(row, col)) \o EncodeRank(row, col + 1, 0)

\* ChessGame.generateFEN, in the split form of a FEN text. A castling field
\* "-" is the set {"-"}; a null, undefined or empty en-passant target is
\* written "-".
GenerateFEN(g) ==
  LET rights == g.state.castlingRights
      castling == (IF rights.whiteKingSide THEN {"K"} ELSE {})
                    \cup (IF rights.whiteQueenSide THEN {"Q"} ELSE {})
                    \cup (IF rights.blackKingSide THEN {"k"} ELSE {})
                    \cup (IF rights.blackQueenSide THEN {"q"} ELSE {})
  IN [fields |-> 6,
      position |-> [r \in 1..8 |-> EncodeRank(g.state.board[r], 1, 0)],
      turn |-> IF g.currentTurn = "player1" THEN "w" ELSE "b",
      castling |-> IF castling = {} THEN {"-"} ELSE castling,
      enPassant |-> IF g.state.enPassantTarget \in {Null, Undefined, ""}
                    THEN "-" ELSE g.state.enPassantTarget,
      halfMove |-> NumberToString(g.state.halfMoveClock),
      fullMove |-> NumberToString(g.state.fullMoveNumber)]

\* ------------------------------------------------ the oracle's reply texts
\* A reply text is kept as the fields the parsers' regular expressions find
\* in it; "absent" is a label the text does not carry (or carries with a
\* value the expression does not match). `fen` names an entry of FenTable.
Absent == "absent"

\* String.prototype.toLowerCase on the move tokens of the model.
ToLowerCase(s) ==
  CASE s = "E7E5" -> "e7e5"
    [] s = "E2E4" -> "e2e4"
    [] OTHER -> s

ValidationReply(valido, normalizado, razon, jaqueMate, tablas, fen) == [
  valido |-> valido, normalizado |-> normalizado, razon |-> razon,
  jaque |-> "false", jaqueMate |-> jaqueMate, tablas |-> tablas,
  posicionJaque |-> "ninguno", captura |-> "false", piezaMovida |-> "peon",
  fen |-> fen]

ReplyValid == ValidationReply("true", "E2E4", "avance de peon", "false", "false", "fenE4")
ReplyCheckmate == ValidationReply("true", "e2e4", "mate", "true", "false", "fenE5")
ReplyDraw == ValidationReply("true", "e2e4", "tablas", "false", "true", "fenE4")
ReplyInvalid == ValidationReply("false", Absent, "movimiento ilegal", "false", "false", Absent)
ReplyNoClocks == ValidationReply("true", "e2e4", "avance de peon", Absent, Absent, "fenNoClocks")

\* Replies that say valid and carry no resulting position, or one that
\* updateBoardFromFEN cannot decode in full.
ReplyNoFen == ValidationReply("true", "e2e4", "avance de peon", "false", "false", Absent)
ReplyShortBoard ==
  ValidationReply("true", "e2e4", "avance de peon", "false", "false", "fenShortBoard")
ReplyBoardOnly ==
  ValidationReply("true", "e2e4", "avance de peon", "false", "false", "fenBoardOnly")

ReplyNoEnPassant ==
  ValidationReply("true", "e2e4", "avance de peon", "false", "false", "fenNoEnPassant")
ReplyNarrowRank ==
  ValidationReply("true", "e2e4", "avance de peon", "false", "false", "fenNarrowRank")

\* The replies the oracle may give to a validation prompt.
ValidationReplies ==
  {ReplyValid, ReplyCheckmate, ReplyDraw, ReplyInvalid, ReplyNoClocks}

GenerationReply(movimiento, jaqueMate, tablas, captura, fen) == [
  movimiento |-> movimiento, explicacion |-> "desarrollo", jaque |-> "false",
  jaqueMate |-> jaqueMate, tablas |-> tablas, posicionJaque |-> "ninguno",
  captura |-> captura, piezaMovida |-> "peon", fen |-> fen]

GenMove == GenerationReply("E7E5", "false", "false", "false", "fenE5")
GenMoveClaimsMate == GenerationReply("e7e5", "true", "false", "true", "fenE4")
GenMalformed == GenerationReply(Absent, "false", "false", "false", Absent)

\* The replies the oracle may give to a generation prompt.
GenerationReplies == {GenMove, GenMoveClaimsMate, GenMalformed}

\* ------------------------------------------------- ChessGame: the parsers
\* `x && x[1].toLowerCase() === 'true'` is null or a boolean and is only
\* ever tested for truth: both null and false are FALSE here.
IsTrue(field) == field = "true"

\* A variant that gives every checkmate to player1.
ParseMoveResponseWhiteWins(reply, currentTurn) ==
  LET isCheckmate == IsTrue(reply.jaqueMate)
      isDraw == IsTrue(reply.tablas)
  IN [valid |-> IsTrue(reply.valido),
      normalizedMove |-> IF reply.normalizado # Absent
                         THEN ToLowerCase(reply.normalizado) ELSE Null,
      reason |-> IF reply.razon # Absent THEN reply.razon ELSE "Movimiento invalido",
      isCheck |-> IsTrue(reply.jaque),
      isCheckmate |-> isCheckmate,
      isDraw |-> isDraw,
      checkPosition |-> IF reply.posicionJaque \in {Absent, "ninguno"}
                        THEN Null ELSE ToLowerCase(reply.posicionJaque),
      gameOver |-> isCheckmate \/ isDraw,
      winner |-> IF isCheckmate THEN "player1"
                 ELSE IF isDraw THEN "draw" ELSE Null,
      isCapture |-> IsTrue(reply.captura),
      pieceMovedText |-> IF reply.piezaMovida # Absent THEN reply.piezaMovida ELSE "",
      fenResult |-> IF reply.fen # Absent THEN reply.fen ELSE Null]

\* A variant that takes a reply for valid unless it says false.
ParseMoveResponseLenient(reply, currentTurn) ==
  LET isCheckmate == IsTrue(reply.jaqueMate)
      isDraw == IsTrue(reply.tablas)
  IN [valid |-> reply.valido # "false",
      normalizedMove |-> IF reply.normalizado # Absent
                         THEN ToLowerCase(reply.normalizado) ELSE Null,
      reason |-> IF reply.razon # Absent THEN reply.razon ELSE "Movimiento invalido",
      isCheck |-> IsTrue(reply.jaque),
      isCheckmate |-> isCheckmate,
      isDraw |-> isDraw,
      checkPosition |-> IF reply.posicionJaque \in {Absent, "ninguno"}
                        THEN Null ELSE ToLowerCase(reply.posicionJaque),
      gameOver |-> isCheckmate \/ isDraw,
      winner |-> IF isCheckmate THEN currentTurn
                 ELSE IF isDraw THEN "draw" ELSE Null,
      isCapture |-> IsTrue(reply.captura),
      pieceMovedText |-> IF reply.piezaMovida # Absent THEN reply.piezaMovida ELSE "",
      fenResult |-> IF reply.fen # Absent THEN reply.fen ELSE Null]

\* ChessGame.parseMoveResponse(response), with this.currentTurn. The catch
\* block is not reached for a text: match on a string does not throw.
ParseMoveResponse(reply, currentTurn) ==
  LET isCheckmate == IsTrue(reply.jaqueMate)
      isDraw == IsTrue(reply.tablas)
  IN [valid |-> IsTrue(reply.valido),
      normalizedMove |-> IF reply.normalizado # Absent
                         THEN ToLowerCase(reply.normalizado) ELSE Null,
      reason |-> IF reply.razon # Absent THEN reply.razon ELSE "Movimiento invalido",
      isCheck |-> IsTrue(reply.jaque),
      isCheckmate |-> isCheckmate,
      isDraw |-> isDraw,
      checkPosition |-> IF reply.posicionJaque \in {Absent, "ninguno"}
                        THEN Null ELSE ToLowerCase(reply.posicionJaque),
      gameOver |-> isCheckmate \/ isDraw,
      winner |-> IF isCheckmate THEN currentTurn
                 ELSE IF isDraw THEN "draw" ELSE Null,
      isCapture |-> IsTrue(reply.captura),
      pieceMovedText |-> IF reply.piezaMovida # Absent THEN reply.piezaMovida ELSE "",
      fenResult |-> IF reply.fen # Absent THEN reply.fen ELSE Null]

\* The keys of the object parseMoveResponse returns.
ValidationKeys == {"valid", "normalizedMove", "reason", "isCheck", "isCheckmate",
                   "isDraw", "checkPosition", "gameOver", "winner", "isCapture",
                   "pieceMovedText", "fenResult"}

\* validateAIMove's catch: { valid: false, reason: ... }; the keys the
\* object lacks read as undefined.
ValidationError == [
  valid |-> FALSE, normalizedMove |-> Undefined,
  reason |-> "Error al validar el movimiento de IA.",
  isCheck |-> FALSE, isCheckmate |-> FALSE, isDraw |-> FALSE,
  checkPosition |-> Undefined, gameOver |-> FALSE, winner |-> Undefined,
  isCapture |-> FALSE, pieceMovedText |-> Undefined, fenResult |-> Undefined]

\* ChessGame.parseAIResponse(response), with this.currentTurn. Without a
\* move token only { valid: false, reason } is returned.
ParseAIResponse(reply, currentTurn) ==
  LET isCheck == IsTrue(reply.jaque)
      isCheckmate == IsTrue(reply.jaqueMate)
      isDraw == IsTrue(reply.tablas)
      isCapture == IsTrue(reply.captura)
  IN IF reply.movimiento = Absent
     THEN [valid |-> FALSE, moveText |-> Undefined, normalizedMove |-> Undefined,
           reason |-> "La IA no genero un movimiento valido",
           explanation |-> Undefined, isCheck |-> FALSE, isCheckmate |-> FALSE,
           isDraw |-> FALSE, checkPosition |-> Undefined, gameOver |-> FALSE,
           winner |-> Undefined, isCapture |-> FALSE, pieceMovedText |-> Undefined,
           messageIntro |-> Undefined, fenResult |-> Undefined]
     ELSE [valid |-> TRUE,
           moveText |-> ToLowerCase(reply.movimiento),
           normalizedMove |-> ToLowerCase(reply.movimiento),
           reason |-> Undefined,
           explanation |-> IF reply.explicacion # Absent
                           THEN reply.explicacion ELSE "Sin explicacion",
           isCheck |-> isCheck,
           isCheckmate |-> isCheckmate,
           isDraw |-> isDraw,
           checkPosition |-> IF reply.posicionJaque \in {Absent, "ninguno"}
                             THEN Null ELSE ToLowerCase(reply.posicionJaque),
           gameOver |-> isCheckmate \/ isDraw,
           winner |-> IF isCheckmate THEN currentTurn
                      ELSE IF isDraw THEN "draw" ELSE Null,
           isCapture |-> isCapture,
           pieceMovedText |-> IF reply.piezaMovida # Absent THEN reply.piezaMovida ELSE "",
           messageIntro |-> IF isCheckmate THEN "Jaque mate! Mi movimiento final es:"
                            ELSE IF isCheck THEN "Jaque! He movido:"
                            ELSE IF isCapture THEN "He capturado:"
                            ELSE "He movido:",
           fenResult |-> IF reply.fen # Absent THEN reply.fen ELSE Null]

\* A variant that spreads the results the other way round: the fields of the
\* generation result win.
MergeResultsGenerationWins(genResult, valResult) ==
  [key \in DOMAIN genResult |-> genResult[key]]

\* generateAIMove: moveResult = { ...moveResult, ...validationResult }.
\* Every key of the validation result overrides the generation result.
MergeResults(genResult, valResult) ==
  [key \in DOMAIN genResult |->
     IF key \in ValidationKeys THEN valResult[key] ELSE genResult[key]]

\* ------------------------------------------------- BaseGame: the session
UserName(id) == IF id = AI_ID THEN "IA" ELSE id

\* new ChessGame() followed by BaseGame.initialize(...): the constructor
\* leaves endTime null and sets type 'ajedrez' whatever tag was requested.
NewGame(player1Id, player2Id, vsAI) == [
  type |-> "ajedrez",
  player1 |-> [id |-> player1Id, name |-> UserName(player1Id)],
  player2 |-> [id |-> player2Id, name |-> UserName(player2Id)],
  currentTurn |-> "player1",
  winner |-> Null,
  moveHistory |-> <<>>,
  startTime |-> DateNow,
  endTime |-> Null,
  vsAI |-> vsAI,
  state |-> InitialChessState]

\* A variant that does not count a drawn game as finished.
IsFinishedByWin(g) == g.winner \in {"player1", "player2"}

\* BaseGame.isFinished
IsFinished(g) == g.winner # Null

\* BaseGame.getEndGameMessage: the sentence, as its fixed part and the name
\* it names.
GetEndGameMessage(g) ==
  IF ~IsFinished(g) THEN <<"El juego aun esta en curso.">>
  ELSE IF g.winner = "player1" THEN <<g.player1.name, "ha ganado!">>
  ELSE IF g.winner = "player2" THEN <<g.player2.name, "ha ganado!">>
  ELSE IF g.winner = "draw" THEN <<"El juego ha terminado en empate!">>
  ELSE <<"El juego ha terminado.">>

\* processMove lines 107-111 and surrender lines 329-333: the message of a
\* call on a finished game.
FinishedMessage(g) == <<"El juego ya ha terminado.">> \o GetEndGameMessage(g)

\* A variant that lets either participant move at any time.
IsPlayerTurnAnyParticipant(g, playerId) ==
  playerId = g.player1.id \/ playerId = g.player2.id

\* BaseGame.isPlayerTurn
IsPlayerTurn(g, playerId) ==
  \/ g.currentTurn = "player1" /\ playerId = g.player1.id
  \/ g.currentTurn = "player2" /\ playerId = g.player2.id

\* BaseGame.isAITurn
IsAITurn(g) == g.vsAI /\ g.currentTurn = "player2"

\* A variant that always hands the turn to player2.
SwitchTurnStuck(g) == [g EXCEPT !.currentTurn = "player2"]

\* BaseGame.switchTurn
SwitchTurn(g) ==
  [g EXCEPT !.currentTurn = IF g.currentTurn = "player1" THEN "player2" ELSE "player1"]

\* ChessGame.applyMove(moveResult, playerId)
ApplyMove(g, moveResult) ==
  IF ~moveResult.valid THEN g
  ELSE LET st0 == IF moveResult.fenResult # Null
                  THEN UpdateBoardFromFEN(g.state, FenTable[moveResult.fenResult])
                  ELSE g.state
           st1 == [st0 EXCEPT !.lastMove = moveResult.normalizedMove,
                              !.check = moveResult.checkPosition]
           st2 == IF g.currentTurn = "player2"
                  THEN [st1 EXCEPT !.fullMoveNumber = Increment(st1.fullMoveNumber)]
                  ELSE st1
       IN [g EXCEPT !.state = st2,
                    !.winner = IF moveResult.gameOver THEN moveResult.winner ELSE g.winner]

\* A variant that writes the text of the move where its normalized form
\* belongs.
MoveEntryRawOnly(playerId, moveText, normalizedMove) == [
  player |-> playerId, move |-> moveText,
  normalizedMove |-> moveText, timestamp |-> ToISOString(DateNow)]

\* The entry processMove and generateAIMove push on moveHistory.
MoveEntry(playerId, moveText, normalizedMove) == [
  player |-> playerId, move |-> moveText,
  normalizedMove |-> normalizedMove, timestamp |-> ToISOString(DateNow)]

\* A variant that closes a game without stamping its end time.
ApplyValidatedMoveOpenEnded(g, playerId, moveText, moveResult) ==
  LET g1 == [g EXCEPT !.moveHistory =
               Append(g.moveHistory, MoveEntry(playerId, moveText, moveResult.normalizedMove))]
      g2 == ApplyMove(g1, moveResult)
  IN IF ~moveResult.gameOver THEN SwitchTurn(g2)
     ELSE [g2 EXCEPT !.winner = moveResult.winner]

\* processMove lines 134-153 and generateAIMove lines 247-266: record the
\* move, apply it, then switch the turn or close the game.
ApplyValidatedMove(g, playerId, moveText, moveResult) ==
  LET g1 == [g EXCEPT !.moveHistory =
               Append(g.moveHistory, MoveEntry(playerId, moveText, moveResult.normalizedMove))]
      g2 == ApplyMove(g1, moveResult)
  IN IF ~moveResult.gameOver THEN SwitchTurn(g2)
     ELSE [g2 EXCEPT !.winner = moveResult.winner, !.endTime = DateNow]

\* A variant that takes the player to move for the one who gives up.
SurrenderApplyByTurn(g, playerId) ==
  [g EXCEPT !.moveHistory =
              Append(g.moveHistory, MoveEntry(playerId, "surrender", Undefined)),
            !.winner = IF g.currentTurn = "player1" THEN "player2" ELSE "player1",
            !.endTime = DateNow]

\* A variant that keeps the surrender as the only entry of moveHistory.
SurrenderApplyClearsHistory(g, playerId) ==
  [g EXCEPT !.moveHistory = <<MoveEntry(playerId, "surrender", Undefined)>>,
            !.winner = IF playerId = g.player1.id THEN "player2" ELSE "player1",
            !.endTime = DateNow]

\* BaseGame.surrender lines 345-354; the entry has no normalizedMove key.
SurrenderApply(g, playerId) ==
  [g EXCEPT !.moveHistory =
              Append(g.moveHistory, MoveEntry(playerId, "surrender", Undefined)),
            !.winner = IF playerId = g.player1.id THEN "player2" ELSE "player1",
            !.endTime = DateNow]

\* A variant that takes every user for a player of the game.
IsParticipantAnyone(g, playerId) == playerId \in Users \cup {AI_ID}

\* BaseGame.surrender lines 336-343
IsParticipant(g, playerId) == playerId = g.player1.id \/ playerId = g.player2.id

\* A variant of the loop condition that allows one attempt more.
LoopContinuesInclusive(intentos, movimientoValido) ==
  intentos <= MAX_INTENTOS /\ ~movimientoValido

\* generateAIMove's loop condition (line 199)
LoopContinues(intentos, movimientoValido) ==
  intentos < MAX_INTENTOS /\ ~movimientoValido

\* A variant that trusts the generation result.
CandidateTrusted(genResult, validationResult) == genResult.valid

\* generateAIMove line 219: a candidate is accepted on the validation
\* result alone.
CandidateAccepted(genResult, validationResult) == validationResult.valid

\* ------------------------------------------------------------ persistence
\* BaseGame.getState
GetState(g) == [
  type |-> g.type, player1 |-> g.player1, player2 |-> g.player2,
  currentTurn |-> g.currentTurn, winner |-> g.winner,
  moveHistory |-> g.moveHistory,
  startTime |-> ToISOString(g.startTime),
  endTime |-> IF g.endTime # Null THEN ToISOString(g.endTime) ELSE Null,
  vsAI |-> g.vsAI, state |-> g.state]

\* JSON.stringify writes NaN as null; a key whose value is undefined is left
\* out, and reads as undefined again after JSON.parse.
JSONNumber(x) == IF x.k = "nan" THEN NullNum ELSE x

\* JSON.parse(JSON.stringify(gameState)): the document as it is read back.
JSONDocument(gameState) ==
  [gameState EXCEPT !.state.halfMoveClock = JSONNumber(gameState.state.halfMoveClock),
                    !.state.fullMoveNumber = JSONNumber(gameState.state.fullMoveNumber)]

\* BaseGame.loadState(savedState) on a new ChessGame
LoadState(savedState) == [
  type |-> savedState.type, player1 |-> savedState.player1,
  player2 |-> savedState.player2, currentTurn |-> savedState.currentTurn,
  winner |-> savedState.winner, moveHistory |-> savedState.moveHistory,
  startTime |-> DateFromISO(savedState.startTime),
  endTime |-> IF savedState.endTime # Null THEN DateFromISO(savedState.endTime) ELSE Null,
  vsAI |-> savedState.vsAI, state |-> savedState.state]

\* ------------------------------------------------------------- the state
AllChannels == {"c1", "c2"}
Handlers == {"h1", "h2"}
GameIds == {1, 2, 3, 4}

\* ------------------------------------------------------ renderChessBoard
\* A line of text is the sequence of its characters; a character outside
\* ASCII is written by the name of its code point.
RECURSIVE Flatten(_)
Flatten(seqs) == IF seqs = <<>> THEN <<>> ELSE Head(seqs) \o Flatten(Tail(seqs))

FileLegend == <<"a", "b", "c", "d", "e", "f", "g", "h">>

\* renderChessBoard, pieceSymbols: the glyph table in its two forms.
PieceSymbols(unicode) ==
  IF unicode
  THEN [piece \in {"K", "Q", "R", "B", "N", "P", "k", "q", "r", "b", "n", "p", " "} |->
          CASE piece = "K" -> "U+2654" [] piece = "Q" -> "U+2655"
            [] piece = "R" -> "U+2656" [] piece = "B" -> "U+2657"
            [] piece = "N" -> "U+2658" [] piece = "P" -> "U+2659"
            [] piece = "k" -> "U+265A" [] piece = "q" -> "U+265B"
            [] piece = "r" -> "U+265C" [] piece = "b" -> "U+265D"
            [] piece = "n" -> "U+265E" [] piece = "p" -> "U+265F"
            [] OTHER -> " "]
  ELSE [piece \in {"K", "Q", "R", "B", "N", "P", "k", "q", "r", "b", "n", "p", " "} |-> piece]

\* getSquareContent(row, col).symbol with row and col counted from 0:
\* symbols[piece] || ' '. The highlighted flag is computed and not printed.
GetSquareSymbol(board, row, col, unicode) ==
  LET piece == PieceAt(board[row + 1], col + 1)
  IN IF piece \in DOMAIN PieceSymbols(unicode) THEN PieceSymbols(unicode)[piece] ELSE " "

\* The legend of the columns and the three kinds of border lines.
ColumnLegend ==
  Blanks(4) \o Flatten([f \in 1..8 |-> <<FileLegend[f]>> \o Blanks(3)]) \o Blanks(1)
BorderLine(left, joint, right) ==
  Blanks(2) \o <<left>>
    \o Flatten([c \in 1..8 |-> <<"U+2500", "U+2500", "U+2500",
                                 IF c < 8 THEN joint ELSE right>>])
    \o Blanks(2)

\* renderChessBoard, the body of the loop over row = 0..7: the line of one
\* board row between its two rank numbers.
RenderRow(board, row, perspective, unicode) ==
  LET displayRow == IF perspective = "black" THEN row ELSE 7 - row
      rowNumber == NumberToString(Num(8 - displayRow))
  IN <<rowNumber, " ", "U+2502">>
       \o Flatten([k \in 1..8 |->
             LET displayCol == IF perspective = "black" THEN 7 - (k - 1) ELSE k - 1
             IN <<" ", GetSquareSymbol(board, displayRow, displayCol, unicode), " ",
                  "U+2502">>])
       \o <<" ", rowNumber>>

\* renderChessBoard(board, {perspective, unicode}): the lines of `output`,
\* which the function returns between two lines of three backquotes.
RenderChessBoard(board, perspective, unicode) ==
  <<ColumnLegend, BorderLine("U+250C", "U+252C", "U+2510")>>
    \o Flatten([k \in 1..8 |->
          <<RenderRow(board, k - 1, perspective, unicode),
            IF k - 1 < 7 THEN BorderLine("U+251C", "U+253C", "U+2524")
            ELSE BorderLine("U+2514", "U+2534", "U+2518")>>])
    \o <<ColumnLegend>>

VARIABLES
  channels,        \* the channels of this run (fixed by Init)
  games,           \* the heap of game objects: id -> BaseGame fields
  activeSessions,  \* GameManager.activeSessions: channelId -> game object
  disk,            \* data/games/<channelId>.json: channelId -> document
  handlers,        \* the handleGameCommand calls in flight
  ioFailures,      \* the file writes and message sends that have failed so far
  overlaps,        \* the commands that started while another of the same
                   \* channel was being handled
  oracle,          \* the replies the oracle of this run may give (fixed by Init)
  rendering,       \* a call of renderChessBoard: its arguments and its output
  moderation,      \* the processModeration call in flight
  executed,        \* the bans, kicks and timeouts carried out in the guild
  config,          \* index.js: the configuration object of the bot
  iaConfig,        \* ia_service.js: its own configuration object
  configFile,      \* config/config.json
  configReply,     \* the answer to the latest command, with the command
  channelFile,     \* data/channels/<channelId>.json of the one channel
  registrations,   \* the registerChannelActivity calls in flight
  registered,      \* the messages whose registration has returned
  userFile,        \* data/users/<userId>.json of the one user
  mention,         \* the processMention call of that user in flight
  mentionCount,    \* the mentions of that user so far
  saveFailures     \* the writes of the user file that have failed so far

\* The state of the games and, part by part, of the bot outside the games.
gameVars == <<channels, games, activeSessions, disk, handlers, ioFailures, overlaps, oracle>>
renderVars == <<rendering>>
moderationVars == <<moderation, executed>>
configVars == <<config, iaConfig, configFile, configReply>>
contextVars == <<channelFile, registrations, registered>>
profileVars == <<userFile, mention, mentionCount, saveFailures>>
botVars == <<renderVars, moderationVars, configVars, contextVars, profileVars>>

\* What a step of one part of the bot leaves as it is.
exceptRender == <<gameVars, moderationVars, configVars, contextVars, profileVars>>
exceptModeration == <<gameVars, renderVars, configVars, contextVars, profileVars>>
exceptConfig == <<gameVars, renderVars, moderationVars, contextVars, profileVars>>
exceptContext == <<gameVars, renderVars, moderationVars, configVars, profileVars>>
exceptProfile == <<gameVars, renderVars, moderationVars, configVars, contextVars>>

vars == <<gameVars, botVars>>

\* The members of the guild with the Administrator permission, and the
\* kinds of moderation request that processMention tells apart.
Administrators == {User1}
ModerationTypes == {"ban", "kick", "mute"}

\* No processModeration call is in flight.
NoModeration == [pc |-> "idle", requester |-> Null, hasPermission |-> FALSE,
                 targetUser |-> Null, type |-> Null, actionSucceeded |-> FALSE]

\* No call of renderChessBoard has been made.
NoRendering == [board |-> InitialBoard, perspective |-> "white", unicode |-> TRUE,
                output |-> <<>>]

\* The bot outside the games as it is when the process has started.
\* config/config.json as the bot is installed, in the keys of the model:
\* two texts and a number that a command may change, and the two secrets.
InitialConfig == [bot |-> [token |-> "secret-token", status |-> "online"],
                  ia |-> [apiKey |-> "secret-key", max_tokens |-> Num(8)]]

\* No command has been answered.
NoReply == [user |-> Null, args |-> <<>>, text |-> Null]

RenderInit == rendering = NoRendering
ModerationInit == moderation = NoModeration /\ executed = <<>>
\* index.js lines 389-390 and ia_service.js lines 1037-1038: both modules
\* read the file when they are loaded.
ConfigInit ==
  /\ config = InitialConfig
  /\ iaConfig = InitialConfig
  /\ configFile = [readable |-> TRUE, doc |-> InitialConfig]
  /\ configReply = NoReply

\* The messageCreate handlers that may be at registerChannelActivity at
\* one time, and a handler that is not.
Registrars == {"r1", "r2"}
NoRegistration == [pc |-> "idle", message |-> [id |-> 0, content |-> ""],
                   channelProfile |-> <<>>]

\* No file of the channel exists and no message has come in. The file and
\* the local channelProfile are <<>> while there is none and <<profile>>
\* when there is one.
ContextInit ==
  /\ channelFile = <<>>
  /\ registrations = [r \in Registrars |-> NoRegistration]
  /\ registered = <<>>

\* createUserProfile: the personality profile of a user not yet analysed.
\* A personality profile is told by the number of messages it was drawn
\* from.
InitialPersonality == [messages |-> 0]

\* No processMention call is in flight.
NoMention == [pc |-> "idle", userProfile |-> <<>>, recentMessages |-> 0,
              personalityProfile |-> InitialPersonality]

\* The user has no file and has not mentioned the bot.
ProfileInit ==
  /\ userFile = <<>>
  /\ mention = NoMention
  /\ mentionCount = 0
  /\ saveFailures = 0

BotInit == RenderInit /\ ModerationInit /\ ConfigInit /\ ContextInit /\ ProfileInit

DefaultGame == NewGame(User1, AI_ID, TRUE)
DefaultDocument == JSONDocument(GetState(DefaultGame))
DefaultResult == ParseAIResponse(GenMalformed, "player2")

\* A variant whose prompt names the latest failed attempt alone.
BuildAIPromptLatestOnly(g, historialIntentos) == [
  fen |-> GenerateFEN(g),
  turn |-> IF g.currentTurn = "player1" THEN "Blancas" ELSE "Negras",
  lastMove |-> IF Len(g.moveHistory) > 0 THEN g.moveHistory[Len(g.moveHistory)].move
               ELSE "Ninguno",
  intentosFallidos |->
    IF historialIntentos = <<>> THEN <<>>
    ELSE << [index |-> 1,
             moveText |-> historialIntentos[Len(historialIntentos)].moveText,
             reason |-> historialIntentos[Len(historialIntentos)].reason] >>]

\* ChessGame.buildAIPrompt(historialIntentos): what the prompt text carries
\* of the session, and its lines "- Intento <index>: <moveText> - Razon:
\* <reason>", one for each entry of historialIntentos.
BuildAIPrompt(g, historialIntentos) == [
  fen |-> GenerateFEN(g),
  turn |-> IF g.currentTurn = "player1" THEN "Blancas" ELSE "Negras",
  lastMove |-> IF Len(g.moveHistory) > 0 THEN g.moveHistory[Len(g.moveHistory)].move
               ELSE "Ninguno",
  intentosFallidos |->
    [index \in 1..Len(historialIntentos) |->
       [index |-> index,
        moveText |-> historialIntentos[index].moveText,
        reason |-> historialIntentos[index].reason]]]

\* No prompt in hand.
NoPrompt == [BuildAIPrompt(DefaultGame, <<>>) EXCEPT !.turn = "", !.lastMove = ""]

\* The locals of one handleGameCommand call. moveRequests counts the
\* requests one processMove call has sent. genRequests, valRequests,
\* validation, before and mutated are bookkeeping of the model: the requests
\* one generateAIMove call has sent, the validation result of the move in hand,
\* the session as it was when that call began, and whether this command
\* changed a session. message is the text of the result where the model
\* follows it: the result of a call on a finished game. With an accepted
\* move genResult keeps the generation result the move came from until the
\* result has been sent. prompt is the generation prompt of the attempt
\* under way.
IdleHandler == [
  pc |-> "idle", channel |-> "c1", user |-> User1, game |-> 0,
  caller |-> "none", gameType |-> "", result |-> "none", message |-> <<>>,
  success |-> FALSE,
  gameOver |-> FALSE, moveText |-> "", intentos |-> 0, historialIntentos |-> <<>>,
  genResult |-> DefaultResult, snapshot |-> DefaultDocument, prompt |-> NoPrompt,
  moveRequests |-> 0, genRequests |-> 0, valRequests |-> 0,
  validation |-> ValidationError,
  before |-> DefaultGame, mutated |-> FALSE]

\* The oracle of the runs with overlapping commands: it accepts or rejects
\* a move and gives or withholds a move token.
PlainOracle == [validation |-> {ReplyValid, ReplyInvalid},
                generation |-> {GenMove, GenMalformed}]

FullOracle == [validation |-> ValidationReplies, generation |-> GenerationReplies]

\* An oracle whose valid replies may lack the resulting position or carry a
\* damaged one.
DecodeOracle == [validation |-> {ReplyValid, ReplyInvalid, ReplyNoFen, ReplyShortBoard,
                                 ReplyBoardOnly, ReplyNoEnPassant, ReplyNoClocks,
                                 ReplyNarrowRank},
                 generation |-> {GenMove}]

Init ==
  /\ channels = {"c1"}
  /\ oracle = FullOracle
  /\ games = <<>>
  /\ activeSessions = <<>>
  /\ disk = <<>>
  /\ handlers = [h \in Handlers |-> IdleHandler]
  /\ ioFailures = 0
  /\ overlaps = 0
  /\ BotInit

\* A step's new heap, registry, files and handlers. Game objects that
\* neither the registry nor a running handler refers to are dropped, as the
\* garbage collector does, and a finished handler's locals are cleared.
Update(ng, na, nd, nh) ==
  LET live == {na[c] : c \in DOMAIN na}
                \cup {nh[h].game : h \in {x \in Handlers : nh[x].pc # "idle"}}
  IN /\ games' = [i \in (DOMAIN ng) \cap live |-> ng[i]]
     /\ activeSessions' = na
     /\ disk' = nd
     /\ handlers' = [h \in Handlers |-> IF nh[h].pc = "idle" THEN IdleHandler ELSE nh[h]]
     /\ overlaps' = overlaps + Cardinality({h \in Handlers : nh[h].pc # "idle"
                                                        /\ handlers[h].pc = "idle"
                                                        /\ \E o \in Handlers \ {h} :
                                                             /\ handlers[o].pc # "idle"
                                                             /\ handlers[o].channel =
                                                                  nh[h].channel})
     /\ UNCHANGED <<channels, oracle, botVars>>

Commit(ng, na, nd, nh) == Update(ng, na, nd, nh) /\ UNCHANGED ioFailures

NewId == CHOOSE i \in GameIds \ DOMAIN games : \A j \in GameIds \ DOMAIN games : i <= j

Put(f, key, val) == [x \in (DOMAIN f) \cup {key} |-> IF x = key THEN val ELSE f[x]]
Remove(f, key) == [x \in (DOMAIN f) \ {key} |-> f[x]]

HasSession(c) == c \in DOMAIN activeSessions
SessionOf(c) == games[activeSessions[c]]

\* handleGameCommand calls saveGameState(channelId, game): what the command
\* still holds then is the channel and the game object.
CallsSave(me) ==
  [IdleHandler EXCEPT !.pc = "save_mkdir", !.channel = me.channel, !.user = me.user,
                      !.game = me.game, !.caller = me.caller, !.gameType = me.gameType,
                      !.mutated = me.mutated]

\* ------------------------------------------------ GameManager.startGame
\* A variant that refuses a channel with any session, finished or not.
StartCheckAnySession(c, gameType) ==
  IF HasSession(c) THEN "already_active"
  ELSE IF gameType \notin GAME_TYPES THEN "unknown_game"
  ELSE "create"

\* startGame lines 85-99: the result of the checks made before the game
\* object is created.
StartCheck(c, gameType) ==
  IF HasSession(c) /\ ~IsFinished(SessionOf(c)) THEN "already_active"
  ELSE IF gameType \notin GAME_TYPES THEN "unknown_game"
  ELSE "create"

\* handleGameCommand lines 139-169 with startGame lines 79-111, up to
\* `await game.initialize(...)`.
BeginStart(h, c, user, gameType, opponent) ==
  /\ handlers[h].pc = "idle"
  /\ LET check == StartCheck(c, gameType)
         playAgainstAI == opponent = Null
         game == NewGame(user, IF playAgainstAI THEN AI_ID ELSE opponent, playAgainstAI)
         me == [IdleHandler EXCEPT !.channel = c, !.user = user, !.gameType = gameType]
     IN IF check = "create"
        THEN Commit(Put(games, NewId, game), activeSessions, disk,
                    [handlers EXCEPT ![h] = [me EXCEPT !.pc = "start_init", !.game = NewId]])
        ELSE Commit(games, activeSessions, disk,
                    [handlers EXCEPT ![h] = [me EXCEPT !.pc = "reply", !.result = check]])

\* startGame lines 113-117: activeSessions.set, then saveGameState up to
\* `await fs.mkdir(...)`.
StartInstall(h) ==
  /\ handlers[h].pc = "start_init"
  /\ Commit(games, Put(activeSessions, handlers[h].channel, handlers[h].game), disk,
            [handlers EXCEPT ![h] = CallsSave([handlers[h] EXCEPT !.caller = "start",
                                                                  !.mutated = TRUE])])

\* ------------------------------------------- GameManager.saveGameState
\* saveGameState lines 364-369: game.getState() and JSON.stringify run when
\* writeFile is called; the write itself completes later.
SaveSnapshot(h) ==
  /\ handlers[h].pc = "save_mkdir"
  /\ Commit(games, activeSessions, disk,
            [handlers EXCEPT ![h].pc = "save_write",
                             ![h].snapshot = JSONDocument(GetState(games[handlers[h].game]))])

\* Where the handler goes when saveGameState has returned: startGame returns
\* to handleGameCommand, which replies with the board; a move or surrender
\* command is over.
AfterSave(me) ==
  IF me.caller = "start"
  THEN [me EXCEPT !.pc = "reply", !.result = "started", !.success = TRUE,
                  !.snapshot = DefaultDocument]
  ELSE [me EXCEPT !.pc = "idle"]

\* A variant that keeps the sessions of all channels in one file.
SaveWrittenSharedFile(h) ==
  /\ handlers[h].pc = "save_write"
  /\ LET me == handlers[h]
         c == me.channel
     IN Commit(games,
               IF IsFinished(games[me.game]) THEN Remove(activeSessions, c)
               ELSE activeSessions,
               Put(disk, "c1", [readable |-> TRUE, doc |-> me.snapshot]),
               [handlers EXCEPT ![h] = AfterSave(me)])

\* saveGameState lines 365-375: the write has completed; a finished game is
\* removed from activeSessions.
SaveWritten(h) ==
  /\ handlers[h].pc = "save_write"
  /\ LET me == handlers[h]
         c == me.channel
     IN Commit(games,
               IF IsFinished(games[me.game]) THEN Remove(activeSessions, c)
               ELSE activeSessions,
               Put(disk, c, [readable |-> TRUE, doc |-> me.snapshot]),
               [handlers EXCEPT ![h] = AfterSave(me)])

\* saveGameState lines 376-378: mkdir or writeFile failed; the error is
\* logged and nothing else happens.
SaveFailed(h) ==
  /\ handlers[h].pc = "save_write"
  /\ ioFailures < MaxIOFailures
  /\ ioFailures' = ioFailures + 1
  /\ Update(games, activeSessions, disk, [handlers EXCEPT ![h] = AfterSave(handlers[h])])

\* handleGameCommand lines 171-188 and 212-213: the last message of a
\* command; whether the send succeeds or throws, the command is over.
SendReply(h) ==
  /\ handlers[h].pc = "reply"
  /\ Commit(games, activeSessions, disk, [handlers EXCEPT ![h].pc = "idle"])

\* ------------------------------------------------------- surrender command
\* handleGameCommand lines 192-197 with BaseGame.surrender, up to
\* `await message.reply(surrenderResult.message)`.
BeginSurrender(h, c, user) ==
  /\ handlers[h].pc = "idle"
  /\ HasSession(c)
  /\ LET id == activeSessions[c]
         g == games[id]
         me == [IdleHandler EXCEPT !.channel = c, !.user = user, !.game = id,
                                   !.pc = "surrender_reply", !.caller = "command"]
     IN IF IsFinished(g)
        THEN Commit(games, activeSessions, disk,
                    [handlers EXCEPT ![h] = [me EXCEPT !.result = "finished",
                                                       !.message = FinishedMessage(g),
                                                       !.gameOver = TRUE]])
        ELSE IF ~IsParticipant(g, user)
        THEN Commit(games, activeSessions, disk,
                    [handlers EXCEPT ![h] = [me EXCEPT !.result = "not_participant"]])
        ELSE Commit([games EXCEPT ![id] = SurrenderApply(g, user)], activeSessions, disk,
                    [handlers EXCEPT ![h] = [me EXCEPT !.result = "surrendered",
                                                       !.success = TRUE, !.gameOver = TRUE,
                                                       !.mutated = TRUE]])

\* handleGameCommand lines 198-203: the reply was sent; a finished game is
\* saved next.
SurrenderReplySent(h) ==
  /\ handlers[h].pc = "surrender_reply"
  /\ Commit(games, activeSessions, disk,
            [handlers EXCEPT ![h] = IF handlers[h].gameOver THEN CallsSave(handlers[h])
                                    ELSE IdleHandler])

\* handleGameCommand lines 247-251: message.reply or channel.send threw; the
\* catch block answers with an error text and the command is over.
ReplyThrows(h) ==
  /\ handlers[h].pc \in {"surrender_reply", "move_reply", "ai_reply"}
  /\ ioFailures < MaxIOFailures
  /\ ioFailures' = ioFailures + 1
  /\ Update(games, activeSessions, disk, [handlers EXCEPT ![h].pc = "idle"])

\* ------------------------------------------------------------- human move
\* GameManager.detectMoveCommand and detectSurrenderCommand on the texts of
\* the model; none of these texts is a start request for detectGameStart.
DetectMoveCommand(text) == text = "e2e4"
DetectSurrenderCommand(text) == text = "me rindo"

\* A variant that answers a text it does not take for a game command.
NotGameCommandAnswers(h, c, user, text) ==
  /\ handlers[h].pc = "idle"
  /\ \/ ~HasSession(c)
     \/ /\ HasSession(c)
        /\ ~DetectSurrenderCommand(text)
        /\ ~IsPlayerTurn(SessionOf(c), user)
        /\ ~DetectMoveCommand(text)
  /\ Commit(games, activeSessions, disk,
            [handlers EXCEPT ![h] = [IdleHandler EXCEPT !.pc = "reply", !.channel = c,
                                                        !.result = "no_game"]])

\* handleGameCommand lines 134-140, 190, 207-216 and 244-246: a text that
\* is no start request, on a channel without a session, or one that is
\* neither a surrender nor a move from a player whose turn it is not: the
\* call returns false and its locals are gone.
NotGameCommand(h, c, user, text) ==
  /\ handlers[h].pc = "idle"
  /\ \/ ~HasSession(c)
     \/ /\ HasSession(c)
        /\ ~DetectSurrenderCommand(text)
        /\ ~IsPlayerTurn(SessionOf(c), user)
        /\ ~DetectMoveCommand(text)
  /\ Commit(games, activeSessions, disk,
            [handlers EXCEPT ![h] = [IdleHandler EXCEPT !.pc = "return", !.channel = c,
                                                        !.result = "not_game_command"]])

\* The caller has the value false and goes on with its other handling.
ReturnsFalse(h) ==
  /\ handlers[h].pc = "return"
  /\ Commit(games, activeSessions, disk, [handlers EXCEPT ![h].pc = "idle"])

\* handleGameCommand lines 192-221 with processMove lines 104-128, up to
\* `await iaService.sendMessageToAI(prompt)`. A text that is no move, sent
\* out of turn, is not a game command and starts nothing.
BeginMove(h, c, user, text) ==
  /\ handlers[h].pc = "idle"
  /\ HasSession(c)
  /\ Len(SessionOf(c).moveHistory) < MaxMoves
  /\ LET id == activeSessions[c]
         g == games[id]
         me == [IdleHandler EXCEPT !.channel = c, !.user = user, !.game = id,
                                   !.moveText = text, !.caller = "command"]
     IN IF ~IsPlayerTurn(g, user)
        THEN /\ DetectMoveCommand(text)
             /\ Commit(games, activeSessions, disk,
                       [handlers EXCEPT ![h] = [me EXCEPT !.pc = "reply",
                                                          !.result = "not_your_turn"]])
        ELSE IF IsFinished(g)
        THEN Commit(games, activeSessions, disk,
                    [handlers EXCEPT ![h] = [me EXCEPT !.pc = "move_reply",
                                                       !.result = "finished",
                                                       !.message = FinishedMessage(g),
                                                       !.gameOver = TRUE]])
        ELSE Commit(games, activeSessions, disk,
                    [handlers EXCEPT ![h] = [me EXCEPT !.pc = "move_oracle",
                                                       !.moveRequests = 1]])

\* A variant that records the move in moveHistory before it looks at the
\* answer.
MoveOracleReplyRecordsFirst(h, reply) ==
  /\ handlers[h].pc = "move_oracle"
  /\ LET me == handlers[h]
         g == games[me.game]
         moveResult == ParseMoveResponse(reply, g.currentTurn)
     IN IF moveResult.valid
        THEN Commit([games EXCEPT ![me.game] =
                       ApplyValidatedMove(g, me.user, me.moveText, moveResult)],
                    activeSessions, disk,
                    [handlers EXCEPT ![h] = [me EXCEPT !.pc = "move_reply",
                                                       !.moveText = "",
                                                       !.validation = moveResult,
                                                       !.result = "moved",
                                                       !.success = TRUE,
                                                       !.gameOver = moveResult.gameOver,
                                                       !.mutated = TRUE]])
        ELSE Commit([games EXCEPT ![me.game].moveHistory =
                       Append(g.moveHistory,
                              MoveEntry(me.user, me.moveText, moveResult.normalizedMove))],
                    activeSessions, disk,
                    [handlers EXCEPT ![h] = [me EXCEPT !.pc = "move_reply",
                                                       !.moveText = "",
                                                       !.validation = moveResult,
                                                       !.result = "invalid"]])

\* processMove lines 131-170: the oracle answered the validation prompt.
MoveOracleReply(h, reply) ==
  /\ handlers[h].pc = "move_oracle"
  /\ LET me == handlers[h]
         g == games[me.game]
         moveResult == ParseMoveResponse(reply, g.currentTurn)
     IN IF moveResult.valid
        THEN Commit([games EXCEPT ![me.game] =
                       ApplyValidatedMove(g, me.user, me.moveText, moveResult)],
                    activeSessions, disk,
                    [handlers EXCEPT ![h] = [me EXCEPT !.pc = "move_reply",
                                                       !.moveText = "",
                                                       !.validation = moveResult,
                                                       !.result = "moved",
                                                       !.success = TRUE,
                                                       !.gameOver = moveResult.gameOver,
                                                       !.mutated = TRUE]])
        ELSE Commit(games, activeSessions, disk,
                    [handlers EXCEPT ![h] = [me EXCEPT !.pc = "move_reply",
                                                       !.moveText = "",
                                                       !.validation = moveResult,
                                                       !.result = "invalid"]])

\* A variant that sends the request once more when it failed the first time.
MoveOracleErrorRetries(h) ==
  /\ handlers[h].pc = "move_oracle"
  /\ IF handlers[h].moveRequests < 2
     THEN Commit(games, activeSessions, disk,
                 [handlers EXCEPT ![h].moveRequests = handlers[h].moveRequests + 1])
     ELSE Commit(games, activeSessions, disk,
                 [handlers EXCEPT ![h].pc = "move_reply", ![h].moveText = "",
                                  ![h].result = "error"])

\* processMove lines 171-178: the request to the oracle failed.
MoveOracleError(h) ==
  /\ handlers[h].pc = "move_oracle"
  /\ Commit(games, activeSessions, disk,
            [handlers EXCEPT ![h].pc = "move_reply", ![h].moveText = "",
                             ![h].result = "error"])

\* handleGameCommand lines 224-241 with generateAIMove lines 185-203: the
\* reply to the human move was sent; the oracle moves next if it is its
\* turn, otherwise the game is saved.
MoveReplySent(h) ==
  /\ handlers[h].pc = "move_reply"
  /\ LET me == handlers[h]
         g == games[me.game]
     IN IF me.success /\ ~me.gameOver /\ IsAITurn(g) /\ ~IsFinished(g)
        THEN Commit(games, activeSessions, disk,
                    [handlers EXCEPT ![h] = [me EXCEPT !.pc = "ai_think", !.intentos = 1,
                                                       !.moveRequests = 0,
                                                       !.result = "none",
                                                       !.success = FALSE,
                                                       !.historialIntentos = <<>>,
                                                       !.validation = ValidationError,
                                                       !.before = g]])
        ELSE Commit(games, activeSessions, disk, [handlers EXCEPT ![h] = CallsSave(me)])

\* ------------------------------------------- BaseGame.generateAIMove loop
\* generateAIMove lines 203-209: the thinking pause is over; the prompt is
\* built from the session as it is now and sent to the oracle.
AIPromptSent(h) ==
  /\ handlers[h].pc = "ai_think"
  /\ Commit(games, activeSessions, disk,
            [handlers EXCEPT ![h].pc = "ai_gen",
                             ![h].prompt = BuildAIPrompt(games[handlers[h].game],
                                                         handlers[h].historialIntentos),
                             ![h].genRequests = handlers[h].genRequests + 1])

\* generateAIMove has returned: its locals are gone, its result goes to
\* handleGameCommand (line 232), which sends it to the channel.
AIReturns(me, result, success, gameOver) ==
  [me EXCEPT !.pc = "ai_reply", !.result = result, !.success = success,
             !.gameOver = gameOver, !.intentos = 0, !.historialIntentos = <<>>,
             !.genResult = DefaultResult, !.prompt = NoPrompt,
             !.genRequests = 0, !.valRequests = 0]

\* generateAIMove lines 228-244 and 276-284: the attempt is recorded as
\* rejected; the loop goes on to the next attempt or ends exhausted.
AttemptRejected(me, moveText, reason) ==
  LET rec == [me EXCEPT !.genResult = DefaultResult, !.prompt = NoPrompt,
                        !.historialIntentos =
                Append(me.historialIntentos, [moveText |-> moveText, reason |-> reason])]
  IN IF LoopContinues(me.intentos, FALSE)
     THEN [rec EXCEPT !.pc = "ai_think", !.intentos = me.intentos + 1]
     ELSE AIReturns(rec, "ai_exhausted", FALSE, FALSE)

\* generateAIMove lines 212-217 and 236-243: the oracle answered the
\* generation prompt. A reply with a move token goes to validateAIMove
\* (lines 300-306), which sends the validation prompt.
AIGenReply(h, reply) ==
  /\ handlers[h].pc = "ai_gen"
  /\ LET me == handlers[h]
         g == games[me.game]
         moveResult == ParseAIResponse(reply, g.currentTurn)
     IN IF moveResult.valid
        THEN Commit(games, activeSessions, disk,
                    [handlers EXCEPT ![h] = [me EXCEPT !.pc = "ai_val",
                                                       !.genResult = moveResult,
                                                       !.valRequests = me.valRequests + 1]])
        ELSE Commit(games, activeSessions, disk,
                    [handlers EXCEPT ![h] =
                       AttemptRejected(me, "formato_invalido", moveResult.reason)])

\* generateAIMove lines 285-292: the generation request failed; the catch
\* block ends the call with an error result.
AIGenError(h) ==
  /\ handlers[h].pc = "ai_gen"
  /\ Commit(games, activeSessions, disk,
            [handlers EXCEPT ![h] = AIReturns(handlers[h], "ai_error", FALSE, FALSE)])

\* A variant that records the candidate in moveHistory before it looks at
\* the validation result.
AIValidatedRecordsFirst(h, validationResult) ==
  LET me == [handlers[h] EXCEPT !.validation = validationResult]
      g == games[me.game]
      moveResult == MergeResults(me.genResult, validationResult)
      recorded == [g EXCEPT !.moveHistory =
                     Append(g.moveHistory, MoveEntry(g.player2.id, moveResult.moveText,
                                                     me.genResult.normalizedMove))]
  IN IF CandidateAccepted(me.genResult, validationResult)
     THEN Commit([games EXCEPT ![me.game] =
                    ApplyValidatedMove(g, g.player2.id, moveResult.moveText, moveResult)],
                 activeSessions, disk,
                 [handlers EXCEPT ![h] =
                    [AIReturns(me, "ai_moved", TRUE, moveResult.gameOver)
                       EXCEPT !.mutated = TRUE, !.genResult = me.genResult]])
     ELSE Commit([games EXCEPT ![me.game] = recorded], activeSessions, disk,
                 [handlers EXCEPT ![h] =
                    AttemptRejected(me, me.genResult.moveText, validationResult.reason)])

\* generateAIMove lines 217-235 and 247-275 with validateAIMove lines
\* 309-311: the validation result of a candidate.
AIValidated(h, validationResult) ==
  LET me == [handlers[h] EXCEPT !.validation = validationResult]
      g == games[me.game]
      moveResult == MergeResults(me.genResult, validationResult)
  IN IF CandidateAccepted(me.genResult, validationResult)
     THEN Commit([games EXCEPT ![me.game] =
                    ApplyValidatedMove(g, g.player2.id, moveResult.moveText, moveResult)],
                 activeSessions, disk,
                 [handlers EXCEPT ![h] =
                    [AIReturns(me, "ai_moved", TRUE, moveResult.gameOver)
                       EXCEPT !.mutated = TRUE, !.genResult = me.genResult]])
     ELSE Commit(games, activeSessions, disk,
                 [handlers EXCEPT ![h] =
                    AttemptRejected(me, me.genResult.moveText, validationResult.reason)])

\* The oracle answered the validation prompt of a candidate.
AIValReply(h, reply) ==
  /\ handlers[h].pc = "ai_val"
  /\ AIValidated(h, ParseMoveResponse(reply, games[handlers[h].game].currentTurn))

\* validateAIMove lines 312-318: the validation request failed.
AIValError(h) ==
  /\ handlers[h].pc = "ai_val"
  /\ AIValidated(h, ValidationError)

\* handleGameCommand lines 235-241: the oracle's result was sent to the
\* channel; the game is saved next.
AIReplySent(h) ==
  /\ handlers[h].pc = "ai_reply"
  /\ Commit(games, activeSessions, disk, [handlers EXCEPT ![h] = CallsSave(handlers[h])])

\* ------------------------------------------------------ crash and restart
HandlerOrder == <<"h1", "h2">>

\* What a crash leaves of the writes in flight: each is lost, complete, or
\* torn (a file that JSON.parse rejects).
RECURSIVE CrashDisk(_, _, _)
CrashDisk(d, order, fate) ==
  IF order = <<>> THEN d
  ELSE LET h == Head(order)
           me == handlers[h]
           d1 == IF me.pc # "save_write" \/ fate[h] = "lost" THEN d
                 ELSE Put(d, me.channel, [readable |-> fate[h] = "written",
                                          doc |-> me.snapshot])
       IN CrashDisk(d1, Tail(order), fate)

\* A variant that gives up the whole load at a document it cannot restore.
RestorableAllOrNothing(d) ==
  IF \A c \in DOMAIN d : d[c].readable /\ d[c].doc.type \in GAME_TYPES
  THEN DOMAIN d ELSE {}

\* GameManager.loadSavedGames lines 50-66: the documents that are restored.
Restorable(d) == {c \in DOMAIN d : d[c].readable /\ d[c].doc.type \in GAME_TYPES}

\* The process dies with every handler in it and is started again:
\* GameManager.initialize and loadSavedGames rebuild activeSessions from the
\* files.
Restart ==
  \E fate \in [Handlers -> {"lost", "written", "torn"}] :
    /\ \A h \in Handlers : handlers[h].pc # "save_write" => fate[h] = "lost"
    /\ LET nd == CrashDisk(disk, HandlerOrder, fate)
           loaded == Restorable(nd)
           idOf == [c \in loaded |-> IF c = "c1" \/ "c1" \notin loaded THEN 1 ELSE 2]
       IN Commit([i \in {idOf[c] : c \in loaded} |->
                    LoadState(nd[CHOOSE c \in loaded : idOf[c] = i].doc)],
                 idOf, nd, [h \in Handlers |-> IdleHandler])

\* ------------------------------------------------------ the specification
StartInitiators == {User1}
Opponents == {Null, User2}
RequestedTypes == {"chess", "chessx"}
CommandTexts == {"e2e4"}
OtherTexts == {"e2e4", "hola", "me rindo"}

Begin(h) ==
  \E c \in channels :
    \/ \E user \in StartInitiators, gameType \in RequestedTypes, opponent \in Opponents :
         BeginStart(h, c, user, gameType, opponent)
    \/ \E user \in Users : BeginSurrender(h, c, user)
    \/ \E user \in Users, text \in CommandTexts : BeginMove(h, c, user, text)
    \/ \E user \in Users, text \in OtherTexts : NotGameCommand(h, c, user, text)

\* The steps of a handler in which no file write and no message send fails.
StepCore(h) ==
  \/ StartInstall(h)
  \/ SaveSnapshot(h)
  \/ SaveWritten(h)
  \/ SendReply(h)
  \/ SurrenderReplySent(h)
  \/ \E reply \in oracle.validation : MoveOracleReply(h, reply)
  \/ MoveOracleError(h)
  \/ MoveReplySent(h)
  \/ AIPromptSent(h)
  \/ \E reply \in oracle.generation : AIGenReply(h, reply)
  \/ AIGenError(h)
  \/ \E reply \in oracle.validation : AIValReply(h, reply)
  \/ AIValError(h)
  \/ AIReplySent(h)
  \/ ReturnsFalse(h)

Step(h) == StepCore(h) \/ SaveFailed(h) \/ ReplyThrows(h)

\* The dispatcher issues one command at a time: a command is handled to its
\* end before the next one starts.
Next == Begin("h1") \/ Step("h1") \/ Restart

Spec == Init /\ [][Next]_vars

\* Commands of one channel overlap: a second handler starts while the first
\* waits at an await. No write or send fails and the process stays up.
InitOverlap ==
  /\ channels = {"c1"}
  /\ oracle = PlainOracle
  /\ games = <<>>
  /\ activeSessions = <<>>
  /\ disk = <<>>
  /\ handlers = [h \in Handlers |-> IdleHandler]
  /\ ioFailures = 0
  /\ overlaps = 0
  /\ BotInit

OverlapNext ==
  \/ ((handlers["h2"].pc = "idle" \/ overlaps < MaxOverlaps) /\ Begin("h1"))
  \/ StepCore("h1")
  \/ (handlers["h1"].pc # "idle" /\ overlaps < MaxOverlaps /\ Begin("h2"))
  \/ StepCore("h2")

SpecOverlap == InitOverlap /\ [][OverlapNext]_vars

\* Commands one at a time, as in Spec, with the oracle of damaged replies.
InitDecode ==
  /\ channels = {"c1"}
  /\ oracle = DecodeOracle
  /\ games = <<>>
  /\ activeSessions = <<>>
  /\ disk = <<>>
  /\ handlers = [h \in Handlers |-> IdleHandler]
  /\ ioFailures = 0
  /\ overlaps = 0
  /\ BotInit

SpecDecode == InitDecode /\ [][Next]_vars

\* Two channels, each with its own dispatcher: h1 handles the commands of
\* c1 and h2 those of c2, one at a time per channel and in any interleaving
\* of the two. The games of c1 are started by u1 and those of c2 by u2, both
\* against the oracle. No write or send fails and the process stays up.
ChannelOf == [h1 |-> "c1", h2 |-> "c2"]
ChannelInitiator == [c1 |-> User1, c2 |-> User2]

InitChannels ==
  /\ channels = {"c1", "c2"}
  /\ oracle = PlainOracle
  /\ games = <<>>
  /\ activeSessions = <<>>
  /\ disk = <<>>
  /\ handlers = [h \in Handlers |-> IdleHandler]
  /\ ioFailures = 0
  /\ overlaps = 0
  /\ BotInit

ChannelBegin(h) ==
  LET c == ChannelOf[h]
      user == ChannelInitiator[c]
  IN \/ \E gameType \in RequestedTypes : BeginStart(h, c, user, gameType, Null)
     \/ BeginSurrender(h, c, user)
     \/ \E text \in CommandTexts : BeginMove(h, c, user, text)
     \/ \E text \in OtherTexts : NotGameCommand(h, c, user, text)

ChannelsNext ==
  \/ ChannelBegin("h1")
  \/ StepCore("h1")
  \/ ChannelBegin("h2")
  \/ StepCore("h2")

SpecChannels == InitChannels /\ [][ChannelsNext]_vars

\* Replies with any of their fields missing, and with a line the parsers do
\* not ask for. Each run has an oracle of one validation reply and one
\* generation reply; one player sends the commands, one at a time.
WithNote(reply) == reply @@ [nota |-> "sin comentarios"]

PlainValidationReplies ==
  {ValidationReply(valido, normalizado, razon, jaqueMate, "false", fen) :
     valido \in {"true", "false", Absent}, normalizado \in {"E2E4", Absent},
     razon \in {"movimiento ilegal", Absent}, jaqueMate \in {"true", Absent},
     fen \in {"fenE4", Absent}}

PlainGenerationReplies ==
  {GenerationReply(movimiento, jaqueMate, "false", "false", fen) :
     movimiento \in {"E7E5", Absent}, jaqueMate \in {"true", Absent},
     fen \in {"fenE5", Absent}}

AnyValidationReplies ==
  PlainValidationReplies \cup {WithNote(reply) : reply \in PlainValidationReplies}

AnyGenerationReplies ==
  PlainGenerationReplies \cup {WithNote(reply) : reply \in PlainGenerationReplies}

ParseOracles ==
  {[validation |-> {reply}, generation |-> {GenMove}] : reply \in AnyValidationReplies}
    \cup {[validation |-> {ReplyValid}, generation |-> {reply}] :
            reply \in AnyGenerationReplies}

InitParse ==
  /\ channels = {"c1"}
  /\ oracle \in ParseOracles
  /\ games = <<>>
  /\ activeSessions = <<>>
  /\ disk = <<>>
  /\ handlers = [h \in Handlers |-> IdleHandler]
  /\ ioFailures = 0
  /\ overlaps = 0
  /\ BotInit

ParseNext ==
  \/ ChannelBegin("h1")
  \/ StepCore("h1")

SpecParse == InitParse /\ [][ParseNext]_vars

\* The process starts on a data directory that already holds files: the
\* file of c2 is a saved chess game, the file of c1 may be a document of a
\* game type this program does not know. Commands come for c1, one at a
\* time, and the process may crash and start again.
ForeignDocument == [DefaultDocument EXCEPT !.type = "damas"]

InitialFiles == {
  [c2 |-> [readable |-> TRUE, doc |-> DefaultDocument]],
  [c1 |-> [readable |-> TRUE, doc |-> ForeignDocument],
   c2 |-> [readable |-> TRUE, doc |-> DefaultDocument]] }

InitReload ==
  /\ channels = {"c1", "c2"}
  /\ oracle = PlainOracle
  /\ games = <<>>
  /\ activeSessions = <<>>
  /\ disk \in InitialFiles
  /\ handlers = [h \in Handlers |-> IdleHandler]
  /\ ioFailures = 0
  /\ overlaps = 0
  /\ BotInit

ReloadNext ==
  \/ ChannelBegin("h1")
  \/ StepCore("h1")
  \/ Restart

SpecReload == InitReload /\ [][ReloadNext]_vars

\* The renderer alone: a board and the options of one call, then the call.
\* The boards are the initial position and the boards that hold one knight
\* or one queen on one square.
OnePieceBoard(piece, r, c) ==
  [row \in 1..8 |-> [col \in 1..8 |-> IF row = r /\ col = c THEN piece ELSE " "]]
RenderBoards ==
  {InitialBoard} \cup {OnePieceBoard(piece, r, c) : piece \in {"N", "q"}, r \in 1..8, c \in 1..8}

\* The state of the games, which the renderer does not touch.
GamesInit ==
  /\ channels = {"c1"}
  /\ oracle = PlainOracle
  /\ games = <<>>
  /\ activeSessions = <<>>
  /\ disk = <<>>
  /\ handlers = [h \in Handlers |-> IdleHandler]
  /\ ioFailures = 0
  /\ overlaps = 0

InitRender ==
  /\ GamesInit
  /\ ModerationInit
  /\ ConfigInit
  /\ ContextInit
  /\ ProfileInit
  /\ rendering \in [board : RenderBoards, perspective : {"white", "black"},
                    unicode : BOOLEAN, output : {<<>>}]

\* renderChessBoard is called and returns.
RenderBoard ==
  /\ rendering.output = <<>>
  /\ rendering' = [rendering EXCEPT !.output =
                     RenderChessBoard(rendering.board, rendering.perspective,
                                      rendering.unicode)]
  /\ UNCHANGED exceptRender

SpecRender == InitRender /\ [][RenderBoard]_vars

\* ------------------------------------------------------ processModeration
\* The moderation requests of the model: who asks, which users the message
\* mentions (the bot first), which kind it is and whether the target is in
\* the member cache of the guild.
MaxRequests == 2
MentionLists == {<<AI_ID>>} \cup {<<AI_ID, u>> : u \in Users}

\* extractTargetUser: the second mentioned user, or null.
ExtractTargetUser(mentions) == IF Len(mentions) > 1 THEN mentions[2] ELSE Null

\* A variant that acts for every requester who names a target.
BeginModerationUnchecked(requester, mentions, type, cached) ==
  /\ moderation.pc = "idle"
  /\ Len(executed) < MaxRequests
  /\ LET targetUser == ExtractTargetUser(mentions)
         me == [NoModeration EXCEPT !.requester = requester, !.type = type,
                                    !.hasPermission = requester \in Administrators,
                                    !.targetUser = targetUser]
     IN moderation' =
          IF targetUser = Null THEN [me EXCEPT !.pc = "target_not_found"]
          ELSE IF type = "ban" \/ cached THEN [me EXCEPT !.pc = "acting"]
          ELSE [me EXCEPT !.pc = "fetching"]
  /\ UNCHANGED <<exceptModeration, executed>>

\* processModeration lines 709-781, 804-815 and 836-842, up to its first
\* await: the permission of the requester and the target are read from the
\* message; without a target or without the permission an answer is asked
\* for, otherwise the action is sent to the guild, after a fetch of the
\* member when a kick or mute finds it not in the cache.
BeginModeration(requester, mentions, type, cached) ==
  /\ moderation.pc = "idle"
  /\ Len(executed) < MaxRequests
  /\ LET targetUser == ExtractTargetUser(mentions)
         me == [NoModeration EXCEPT !.requester = requester, !.type = type,
                                    !.hasPermission = requester \in Administrators,
                                    !.targetUser = targetUser]
     IN moderation' =
          IF targetUser = Null THEN [me EXCEPT !.pc = "target_not_found"]
          ELSE IF ~me.hasPermission THEN [me EXCEPT !.pc = "permission_denied"]
          ELSE IF type = "ban" \/ cached THEN [me EXCEPT !.pc = "acting"]
          ELSE [me EXCEPT !.pc = "fetching"]
  /\ UNCHANGED <<exceptModeration, executed>>

\* processModeration lines 808-813 and 840-845: guild.members.fetch has
\* answered with the member, or has thrown.
MemberFetched(found) ==
  /\ moderation.pc = "fetching"
  /\ moderation' = [moderation EXCEPT !.pc = IF found THEN "acting" ELSE "respond"]
  /\ UNCHANGED <<exceptModeration, executed>>

\* processModeration lines 781-790, 809-824 and 842-858: the guild has
\* carried out the ban, kick or timeout, or the call has thrown.
ActionReturns(done) ==
  /\ moderation.pc = "acting"
  /\ moderation' = [moderation EXCEPT !.pc = "respond", !.actionSucceeded = done]
  /\ executed' = IF done
                 THEN Append(executed,
                             [action |-> IF moderation.type = "mute" THEN "timeout"
                                         ELSE moderation.type,
                              target |-> moderation.targetUser,
                              requester |-> moderation.requester])
                 ELSE executed
  /\ UNCHANGED exceptModeration

\* processModeration lines 716-741, 744-769 and 867-887: the answer is
\* generated and sent and the exchange is stored; the call is over.
ModerationAnswered ==
  /\ moderation.pc \in {"target_not_found", "permission_denied", "respond"}
  /\ moderation' = NoModeration
  /\ UNCHANGED <<exceptModeration, executed>>

InitModeration == GamesInit /\ BotInit

ModerationNext ==
  \/ \E requester \in Users, mentions \in MentionLists, type \in ModerationTypes,
        cached \in BOOLEAN : BeginModeration(requester, mentions, type, cached)
  \/ \E found \in BOOLEAN : MemberFetched(found)
  \/ \E done \in BOOLEAN : ActionReturns(done)
  \/ ModerationAnswered

SpecModeration == InitModeration /\ [][ModerationNext]_vars

\* ----------------------------------------------------------- !configurar
\* typeof config[section][key] for the keys of the model.
ConfigTypes == [bot |-> [token |-> "string", status |-> "string"],
                ia |-> [apiKey |-> "string", max_tokens |-> "number"]]

\* Number(value) for the texts of the model: a digit, "Infinity", or a text
\* that is no number.
Infinity == [k |-> "inf", v |-> 0]
ToNumber(text) ==
  IF text \in DOMAIN DigitVal THEN Num(DigitVal[text])
  ELSE IF text = "Infinity" THEN Infinity
  ELSE NaN

\* JSON.parse(JSON.stringify(config)): an infinite number is written as
\* null.
ConfigDocument(cfg) ==
  [cfg EXCEPT !.ia.max_tokens = IF cfg.ia.max_tokens.k \in {"inf", "nan"} THEN NullNum
                                ELSE cfg.ia.max_tokens]

\* The commands of the model: who sends one, its arguments after the
\* command word, and what becomes of the file when saveConfig writes it:
\* it is written, or the write fails and leaves the file as it was or cut
\* short.
ConfigArgs == {<<>>, <<"ver">>, <<"bot", "status">>,
               <<"bot", "status", "busy">>, <<"bot", "status", "online">>,
               <<"bot", "token", "stolen">>, <<"ia", "apiKey", "stolen">>,
               <<"ia", "max_tokens", "5">>, <<"ia", "max_tokens", "many">>,
               <<"ia", "max_tokens", "Infinity">>,
               <<"memory", "limit", "5">>, <<"bot", "owner", "u2">>}
WriteFates == {"written", "refused", "torn"}

\* processCommand lines 472-548: the answer of a command that changes
\* nothing, or "write" for a command that goes on to change a value.
CommandCheck(user, args) ==
  IF user \notin Administrators THEN "admins_only"
  ELSE IF Len(args) = 0 THEN "help"
  ELSE IF args[1] = "ver" THEN "shown"
  ELSE IF Len(args) < 3 THEN "too_few_arguments"
  ELSE IF args[1] \notin DOMAIN config THEN "no_such_section"
  ELSE IF args[2] \notin DOMAIN config[args[1]] THEN "no_such_key"
  ELSE IF ConfigTypes[args[1]][args[2]] = "number" /\ ToNumber(args[3]) = NaN
  THEN "not_a_number"
  ELSE IF (args[1] = "bot" /\ args[2] = "token") \/ (args[1] = "ia" /\ args[2] = "apiKey")
  THEN "refused"
  ELSE "write"

\* A variant that keeps the new value when the file could not be written.
ProcessCommandKeepsValue(user, args, fate) ==
  LET typedValue == IF ConfigTypes[args[1]][args[2]] = "number" THEN ToNumber(args[3])
                    ELSE args[3]
      changed == [config EXCEPT ![args[1]][args[2]] = typedValue]
      answer == CommandCheck(user, args)
  IN /\ configReply' = [user |-> user, args |-> args,
                        text |-> IF answer # "write" THEN answer
                                 ELSE IF fate = "written" THEN "updated"
                                 ELSE "save_failed"]
     /\ config' = IF answer = "write" THEN changed ELSE config
     /\ IF answer = "write" /\ fate = "written"
        THEN /\ configFile' = [readable |-> TRUE, doc |-> ConfigDocument(changed)]
             /\ iaConfig' = ConfigDocument(changed)
        ELSE /\ configFile' = IF answer = "write" /\ fate = "torn"
                              THEN [readable |-> FALSE, doc |-> InitialConfig]
                              ELSE configFile
             /\ iaConfig' = iaConfig
     /\ UNCHANGED exceptConfig

\* processCommand with saveConfig and reloadConfig: one command, from the
\* message to its answer; no await lies between. A value that passes the
\* checks is put into config and the file is written: when that succeeds
\* ia_service reads the file back into its own object, when it fails the
\* old value is put back.
ProcessCommand(user, args, fate) ==
  LET typedValue == IF ConfigTypes[args[1]][args[2]] = "number" THEN ToNumber(args[3])
                    ELSE args[3]
      changed == [config EXCEPT ![args[1]][args[2]] = typedValue]
      answer == CommandCheck(user, args)
  IN /\ configReply' = [user |-> user, args |-> args,
                        text |-> IF answer # "write" THEN answer
                                 ELSE IF fate = "written" THEN "updated"
                                 ELSE "save_failed"]
     /\ IF answer = "write" /\ fate = "written"
        THEN /\ config' = changed
             /\ configFile' = [readable |-> TRUE, doc |-> ConfigDocument(changed)]
             /\ iaConfig' = ConfigDocument(changed)
        ELSE /\ config' = config
             /\ configFile' = IF answer = "write" /\ fate = "torn"
                              THEN [readable |-> FALSE, doc |-> InitialConfig]
                              ELSE configFile
             /\ iaConfig' = iaConfig
     /\ UNCHANGED exceptConfig

InitConfig == GamesInit /\ BotInit

ConfigNext ==
  \E user \in Users, args \in ConfigArgs, fate \in WriteFates : ProcessCommand(user, args, fate)

SpecConfig == InitConfig /\ [][ConfigNext]_vars

\* ------------------------------------------------ registerChannelActivity
\* The texts of the messages of the model: one is a command.
MessageTexts == {"hola", "!configurar ver"}
IsCommandText(text) == text = "!configurar ver"

\* createChannelProfile, in the two fields that count messages.
CreateChannelProfile == [messageCount |-> 0, recentMessages |-> <<>>]

\* Array.prototype.slice(-n)
SliceLast(seq, n) == IF Len(seq) > n THEN SubSeq(seq, Len(seq) - n + 1, Len(seq)) ELSE seq

\* registerChannelActivity lines 46-64: the message is counted and, unless
\* it is a command, appended to the recent messages, of which the last 50
\* stay.
CountMessage(profile, message) ==
  [messageCount |-> profile.messageCount + 1,
   recentMessages |->
     IF IsCommandText(message.content) THEN profile.recentMessages
     ELSE SliceLast(Append(profile.recentMessages, message), RECENT_MESSAGES)]

\* The messages that have come in so far.
Arrived == Len(registered) + Cardinality({r \in Registrars : registrations[r].pc # "idle"})

\* messageCreate handler lines 427-433 with registerChannelActivity up to
\* `await dataStorage.loadChannel(channelId)`: a message of a user comes in.
MessageArrives(r, content) ==
  /\ registrations[r].pc = "idle"
  /\ Arrived < MaxMessages
  /\ registrations' = [registrations EXCEPT ![r] =
                         [NoRegistration EXCEPT !.pc = "loading",
                                                !.message = [id |-> Arrived + 1,
                                                             content |-> content]]]
  /\ UNCHANGED <<exceptContext, channelFile, registered>>

\* registerChannelActivity lines 39-67: the file was read; the profile read
\* from it, or a new one, counts the message and goes to saveChannel.
ChannelLoaded(r) ==
  /\ registrations[r].pc = "loading"
  /\ registrations' = [registrations EXCEPT
                         ![r].pc = "saving",
                         ![r].channelProfile =
                            <<CountMessage(IF channelFile = <<>> THEN CreateChannelProfile
                                           ELSE channelFile[1],
                                           registrations[r].message)>>]
  /\ UNCHANGED <<exceptContext, channelFile, registered>>

\* saveData lines 17-25 and registerChannelActivity line 69: the profile is
\* written and the registration returns.
ChannelSaved(r) ==
  /\ registrations[r].pc = "saving"
  /\ channelFile' = registrations[r].channelProfile
  /\ registered' = Append(registered, registrations[r].message)
  /\ registrations' = [registrations EXCEPT ![r] = NoRegistration]
  /\ UNCHANGED exceptContext

InitContext == GamesInit /\ BotInit

ContextNext ==
  \E r \in Registrars :
    \/ \E content \in MessageTexts : MessageArrives(r, content)
    \/ ChannelLoaded(r)
    \/ ChannelSaved(r)

SpecContext == InitContext /\ [][ContextNext]_vars

\* ------------------------------------------------ the analysis of a user
\* createUserProfile: no interaction, no message, analysis needed.
CreateUserProfile == [interactionCount |-> 0, messageHistory |-> <<>>,
                      needsAnalysis |-> TRUE, personalityProfile |-> InitialPersonality]

\* dataStorage.loadUser: the profile of the file, or null.
LoadUser == userFile

\* The messages of a history that the user wrote, as
\* getRecentMessagesForAnalysis filters them.
UserMessages(history) == SelectSeq(history, LAMBDA m : ~m.isFromBot)

\* A variant that sets the mark by the count alone, whatever it was.
SaveMessageApplyByCount(profile, isFromBot) ==
  LET count == IF isFromBot THEN profile.interactionCount ELSE profile.interactionCount + 1
  IN [profile EXCEPT
        !.interactionCount = count,
        !.needsAnalysis = count % ANALYSIS_INTERVAL = 0,
        !.messageHistory = SliceLast(Append(profile.messageHistory, [isFromBot |-> isFromBot]),
                                     MESSAGE_HISTORY_LIMIT)]

\* saveMessage lines 57-83: a message of the user is counted and marks the
\* profile at every tenth; the message is appended and the last 50 stay.
SaveMessageApply(profile, isFromBot) ==
  LET count == IF isFromBot THEN profile.interactionCount ELSE profile.interactionCount + 1
  IN [profile EXCEPT
        !.interactionCount = count,
        !.needsAnalysis = IF ~isFromBot /\ count % ANALYSIS_INTERVAL = 0 THEN TRUE
                          ELSE profile.needsAnalysis,
        !.messageHistory = SliceLast(Append(profile.messageHistory, [isFromBot |-> isFromBot]),
                                     MESSAGE_HISTORY_LIMIT)]

ProfileStep(m) == mention' = m /\ UNCHANGED <<exceptProfile, userFile, mentionCount, saveFailures>>

\* processMention lines 894-909 up to the loadUser of userNeedsAnalysis:
\* the user mentions the bot.
BeginMention ==
  /\ mention.pc = "idle"
  /\ mentionCount < MaxMentions
  /\ mentionCount' = mentionCount + 1
  /\ mention' = [NoMention EXCEPT !.pc = "check"]
  /\ UNCHANGED <<exceptProfile, userFile, saveFailures>>

\* userNeedsAnalysis and checkAndAnalyzeUserIfNeeded lines 148-157: a user
\* without a file or with the mark is analysed, starting with the loadUser
\* of getRecentMessagesForAnalysis; otherwise the mention is answered.
NeedsChecked ==
  /\ mention.pc = "check"
  /\ ProfileStep([mention EXCEPT !.pc = IF LoadUser = <<>> \/ LoadUser[1].needsAnalysis
                                        THEN "recent" ELSE "respond"])

\* getRecentMessagesForAnalysis and analyzeUser lines 16-27: without a
\* message of the user there is no analysis; otherwise the last 20 go to
\* the oracle.
RecentMessagesRead ==
  /\ mention.pc = "recent"
  /\ LET recent == IF LoadUser = <<>> THEN <<>>
                   ELSE SliceLast(UserMessages(LoadUser[1].messageHistory), ANALYSIS_MESSAGES)
     IN ProfileStep(IF Len(recent) = 0 THEN [mention EXCEPT !.pc = "respond"]
                    ELSE [mention EXCEPT !.pc = "analyze", !.recentMessages = Len(recent)])

\* analyzeUser lines 27-38: performUserAnalysis has answered, or has failed
\* and returned null; an answer becomes a personality profile and
\* updatePersonalityProfile starts with its loadUser.
AnalysisReturns(answered) ==
  /\ mention.pc = "analyze"
  /\ ProfileStep(IF answered
                 THEN [mention EXCEPT !.pc = "update",
                                      !.personalityProfile =
                                         [messages |-> mention.recentMessages]]
                 ELSE [mention EXCEPT !.pc = "respond"])

\* updatePersonalityProfile lines 171-177: the profile read gets the new
\* personality profile and loses the mark, and goes to saveUser.
UpdateLoaded ==
  /\ mention.pc = "update"
  /\ ProfileStep(IF LoadUser = <<>> THEN [mention EXCEPT !.pc = "respond"]
                 ELSE [mention EXCEPT
                         !.pc = "update_save",
                         !.userProfile =
                            <<[LoadUser[1] EXCEPT
                                 !.personalityProfile = mention.personalityProfile,
                                 !.needsAnalysis = FALSE]>>])

\* processMention lines 911-1008: the answer of the mention is made; the
\* steps between leave the count and the mark of the file as they are.
\* saveMessage for the message of the user starts with its loadUser.
MentionAnswered ==
  /\ mention.pc = "respond"
  /\ ProfileStep([NoMention EXCEPT !.pc = "save_user"])

\* saveMessage lines 50-86, for the message of the user and then for the
\* answer of the bot: the profile read, or a new one, takes the message
\* and goes to saveUser.
SaveMessageLoaded ==
  /\ mention.pc \in {"save_user", "save_bot"}
  /\ ProfileStep([mention EXCEPT
                    !.pc = IF mention.pc = "save_user" THEN "save_user_write"
                           ELSE "save_bot_write",
                    !.userProfile =
                       <<SaveMessageApply(IF LoadUser = <<>> THEN CreateUserProfile
                                          ELSE LoadUser[1],
                                          mention.pc = "save_bot")>>])

\* dataStorage.saveUser: the file is written, or saveData fails and
\* returns false, which no caller looks at. The call goes on: after
\* updatePersonalityProfile to the answer, after the message of the user
\* to the message of the bot, and after that it is over.
UserSaved(written) ==
  /\ mention.pc \in {"update_save", "save_user_write", "save_bot_write"}
  /\ IF written THEN userFile' = mention.userProfile /\ UNCHANGED saveFailures
     ELSE /\ saveFailures < MaxIOFailures
          /\ saveFailures' = saveFailures + 1
          /\ UNCHANGED userFile
  /\ mention' = IF mention.pc = "update_save" THEN [mention EXCEPT !.pc = "respond"]
                ELSE IF mention.pc = "save_user_write" THEN [NoMention EXCEPT !.pc = "save_bot"]
                ELSE NoMention
  /\ UNCHANGED <<exceptProfile, mentionCount>>

InitProfile == GamesInit /\ BotInit

ProfileNext ==
  \/ BeginMention
  \/ NeedsChecked
  \/ RecentMessagesRead
  \/ \E answered \in BOOLEAN : AnalysisReturns(answered)
  \/ UpdateLoaded
  \/ MentionAnswered
  \/ SaveMessageLoaded
  \/ \E written \in BOOLEAN : UserSaved(written)

\* The mentions of the user are handled one after the other.
SpecProfile == InitProfile /\ [][ProfileNext]_vars

\* ------------------------------------------------------------- properties
Last(seq) == seq[Len(seq)]
InAILoop(h) == handlers[h].pc \in {"ai_think", "ai_gen", "ai_val"}
AIResultAt(h, result) == handlers[h].pc = "ai_reply" /\ handlers[h].result = result

\* C1: in every state of every run, each session has a winner exactly when
\* it has an end time.
C1_WinnerIffEndTime ==
  \A i \in DOMAIN games : (games[i].winner # Null) <=> (games[i].endTime # Null)

\* A game that a checkmating move closed: it has a winner and an end time.
C1_Witness ==
  \E i \in DOMAIN games :
    /\ games[i].winner = "player1" /\ games[i].endTime # Null
    /\ Len(games[i].moveHistory) >= 1
    /\ Last(games[i].moveHistory).move # "surrender"

\* C2: when generateAIMove ends exhausted, the session is what it was right
\* before the first generation attempt: turn, winner, end time, move history
\* and adapter state included.
C2_ExhaustedLeavesSession ==
  \A h \in Handlers :
    AIResultAt(h, "ai_exhausted") => games[handlers[h].game] = handlers[h].before

\* The oracle's move generation has ended exhausted after a candidate was
\* sent to validation and rejected.
C2_Witness ==
  \E h \in Handlers : AIResultAt(h, "ai_exhausted") /\ ~handlers[h].validation.valid
                        /\ handlers[h].validation # ValidationError

\* C3: generateAIMove applies a candidate only if the separate validation
\* request reported it valid; the move recorded and the end of the game are
\* the validation's, whatever the generation reply said.
C3_OnlyValidatedApplied ==
  \A h \in Handlers :
    LET me == handlers[h]
        g == games[me.game]
    IN /\ AIResultAt(h, "ai_moved") =>
            /\ me.validation.valid
            /\ Len(g.moveHistory) = Len(me.before.moveHistory) + 1
            /\ Last(g.moveHistory).normalizedMove = me.validation.normalizedMove
            /\ IsFinished(g) <=> me.validation.gameOver
            /\ me.validation.gameOver => g.winner = me.validation.winner
       /\ me.pc = "ai_reply" /\ me.result # "ai_moved" => g = me.before

\* A candidate whose generation reply announced checkmate was applied after
\* a validation that reported an ordinary legal move: the game goes on.
C3_Witness ==
  \E h \in Handlers :
    /\ AIResultAt(h, "ai_moved")
    /\ handlers[h].genResult.isCheckmate
    /\ ~handlers[h].validation.gameOver
    /\ ~IsFinished(games[handlers[h].game])

\* What holds of one generateAIMove call in every state, given the results
\* it may end with.
AILoopBounded(outcomes) ==
  \A h \in Handlers :
    LET me == handlers[h]
        g == games[me.game]
    IN /\ me.genRequests <= MAX_INTENTOS
       /\ me.valRequests <= MAX_INTENTOS
       /\ me.valRequests <= me.genRequests
       /\ InAILoop(h) => g = me.before /\ me.intentos <= MAX_INTENTOS
       /\ me.pc = "ai_reply" =>
            /\ me.result \in outcomes
            /\ me.result = "ai_moved" =>
                 Len(g.moveHistory) = Len(me.before.moveHistory) + 1
            /\ me.result # "ai_moved" => g = me.before

\* How far a generateAIMove call is from its end: the rounds it may still
\* begin, and the awaits left in the round it is in.
StepsLeft(me) ==
  CASE me.pc = "ai_think" -> 3 * (MAX_INTENTOS - me.intentos) + 3
    [] me.pc = "ai_gen" -> 3 * (MAX_INTENTOS - me.intentos) + 2
    [] me.pc = "ai_val" -> 3 * (MAX_INTENTOS - me.intentos) + 1
    [] OTHER -> 0

\* The call always ends: while it runs one of its awaits can resolve, and
\* every step brings it closer to its end.
AILoopEnds ==
  /\ [](\A h \in Handlers :
          InAILoop(h) =>
            ENABLED AIPromptSent(h) \/ ENABLED AIGenError(h) \/ ENABLED AIValError(h))
  /\ [][\A h \in Handlers :
         InAILoop(h) /\ handlers'[h] # handlers[h] =>
           /\ StepsLeft(handlers[h]) > 0
           /\ StepsLeft(handlers'[h]) < StepsLeft(handlers[h])
           /\ handlers'[h].pc \in {"ai_think", "ai_gen", "ai_val", "ai_reply", "idle"}]_vars

\* C4 as stated: one generateAIMove call sends at most 3 generation and at
\* most 3 validation requests and always ends, either with exactly one move
\* applied or exhausted; the session does not change before a candidate is
\* accepted.
C4_MovedOrExhausted ==
  []AILoopBounded({"ai_moved", "ai_exhausted"}) /\ AILoopEnds

\* C4 with the third way the call ends: one generateAIMove call sends at
\* most 3 generation and at most 3 validation requests and always ends, with
\* exactly one move applied, or exhausted, or with an error result when a
\* generation request failed; the session changes only when a candidate is
\* accepted.
C4_BoundedAttempts ==
  []AILoopBounded({"ai_moved", "ai_exhausted", "ai_error"}) /\ AILoopEnds

\* The third generation request of a call is out, after two rejected
\* attempts of which one reached validation.
C4_Witness ==
  \E h \in Handlers :
    /\ handlers[h].pc = "ai_gen"
    /\ handlers[h].genRequests = MAX_INTENTOS
    /\ handlers[h].valRequests >= 1
    /\ Len(handlers[h].historialIntentos) = MAX_INTENTOS - 1

\* A step of handler h that is no restart, on a game that was there before.
ActsOnGame(h) ==
  /\ handlers'[h].pc # "idle"
  /\ handlers'[h].game \in DOMAIN games
  /\ handlers[h].pc = "idle" \/ handlers[h].game = handlers'[h].game

\* What a step of handler h does to the turn of the game it acts on. The
\* step closes the game when it is a surrender or sets the winner.
TurnDiscipline(h) ==
  LET old == games[handlers'[h].game]
      new == games'[handlers'[h].game]
      other == IF old.currentTurn = "player1" THEN "player2" ELSE "player1"
      applied == Len(new.moveHistory) = Len(old.moveHistory) + 1
      closing == new.winner # old.winner
  IN ActsOnGame(h) =>
       /\ applied \/ new.moveHistory = old.moveHistory
       /\ ~applied => new.currentTurn = old.currentTurn /\ ~closing
       /\ applied /\ ~closing => new.currentTurn = other
       /\ applied /\ closing => new.currentTurn = old.currentTurn

\* C5: currentTurn changes only when a move is applied that does not end the
\* game, and then to the other player; a call that is rejected, out of turn,
\* invalid or failed leaves it alone, and so do a terminal move and a
\* surrender.
C5_TurnAlternates == [][\A h \in Handlers : TurnDiscipline(h)]_vars

\* Two moves were applied to a game that goes on: the turn went to player2
\* and came back to player1.
C5_Witness ==
  \E h \in Handlers :
    /\ AIResultAt(h, "ai_moved")
    /\ ~IsFinished(games[handlers[h].game])
    /\ Len(games[handlers[h].game].moveHistory) = 2
    /\ handlers[h].before.currentTurn = "player2"
    /\ games[handlers[h].game].currentTurn = "player1"

Fresh(g) ==
  /\ g.currentTurn = "player1" /\ g.winner = Null /\ g.endTime = Null
  /\ g.moveHistory = <<>> /\ g.state = InitialChessState

\* A startGame call has made its checks: what it found and what it did.
StartOutcome(h) ==
  LET me == handlers'[h]
      c == me.channel
      blocked == HasSession(c) /\ ~IsFinished(SessionOf(c))
      untouched == games' = games /\ activeSessions' = activeSessions /\ disk' = disk
  IN handlers[h].pc = "idle" /\ me.pc # "idle" /\ me.gameType # "" =>
       /\ blocked => me.pc = "reply" /\ me.result = "already_active" /\ untouched
       /\ ~blocked /\ me.gameType \notin GAME_TYPES =>
            me.pc = "reply" /\ me.result = "unknown_game" /\ untouched
       /\ ~blocked /\ me.gameType \in GAME_TYPES =>
            /\ me.pc = "start_init"
            /\ me.game \notin DOMAIN games
            /\ Fresh(games'[me.game])
            /\ games'[me.game].player1.id = me.user

\* A startGame call has returned success: the registry holds its session.
StartSucceeded(h) ==
  LET me == handlers'[h]
  IN me.pc = "reply" /\ me.result = "started" =>
       /\ me.channel \in DOMAIN activeSessions'
       /\ activeSessions'[me.channel] = me.game
       /\ Fresh(games'[me.game])

\* C6: startGame on a channel with an unfinished session reports a conflict
\* and changes nothing; with an unknown game type it reports that and creates
\* nothing; with a known type on a channel with no session or a finished one
\* it creates a new session and succeeds with it in the registry.
C6_StartGameOutcomes ==
  [][\A h \in Handlers : StartOutcome(h) /\ StartSucceeded(h)]_vars

\* A startGame call has created a game for a channel whose registered
\* session is finished.
C6_Witness ==
  \E h \in Handlers :
    /\ handlers[h].pc = "start_init"
    /\ HasSession(handlers[h].channel)
    /\ IsFinished(SessionOf(handlers[h].channel))

\* The file of channel c holds the session g as it is in memory.
Persisted(d, c, g) ==
  /\ c \in DOMAIN d
  /\ d[c].readable
  /\ d[c].doc = JSONDocument(GetState(g))

\* startGame has put its session in the registry and is on its way to
\* return it as started.
Started(h) == handlers[h].caller = "start"

\* C7: however startGame calls of one channel interleave, a session that
\* startGame returns as started is the one session the registry holds for
\* the channel.
C7_OneSessionPerChannel ==
  \A h \in Handlers :
    Started(h) /\ ~IsFinished(games[handlers[h].game]) =>
      /\ HasSession(handlers[h].channel)
      /\ activeSessions[handlers[h].channel] = handlers[h].game

\* C8: when the handling of a command that changed a session is over, the
\* file of the channel holds the session as it is in memory, also when
\* sending a message failed (no file write has failed in the run).
C8_PersistedWhenHandled ==
  [][\A h \in Handlers :
       /\ Step(h)
       /\ handlers'[h].pc = "idle"
       /\ handlers[h].mutated
       /\ ioFailures = 0
       => Persisted(disk', handlers[h].channel, games[handlers[h].game])]_vars

\* C9: a message that announces a changed session goes out only when the
\* file of the channel already holds that change.
C9_WriteBeforeMessage ==
  \A h \in Handlers :
    /\ handlers[h].pc \in {"surrender_reply", "move_reply", "ai_reply"}
    /\ handlers[h].success
    => Persisted(disk, handlers[h].channel, games[handlers[h].game])

\* C10: a session saved with getState and restored with loadState is the
\* session that was saved: type, players, turn, winner, move history, start
\* and end time, opponent flag and adapter state.
C10_SaveLoadRoundTrip ==
  \A i \in DOMAIN games : LoadState(JSONDocument(GetState(games[i]))) = games[i]

AllIdle == \A h \in Handlers : handlers[h].pc = "idle"

\* C11: when no command is being handled, also right after a restart has
\* reloaded the files, the registry holds no session whose winner is set
\* (no file write and no message send has failed in the run).
C11_NoFinishedSessionActive ==
  AllIdle /\ ioFailures = 0 =>
    \A c \in DOMAIN activeSessions : ~IsFinished(SessionOf(c))

\* The player whose turn it is in game g.
PlayerToMove(g) == IF g.currentTurn = "player1" THEN g.player1.id ELSE g.player2.id

SessionUntouched ==
  games' = games /\ activeSessions' = activeSessions /\ disk' = disk

\* A move command begins: handler h takes up a text for a game.
MoveSubmitted(h) == handlers[h].pc = "idle" /\ handlers'[h].caller = "command"
                      /\ handlers'[h].pc \in {"reply", "move_reply", "move_oracle"}

StoredOutcome(g) ==
  CASE g.winner = "player1" -> <<g.player1.name, "ha ganado!">>
    [] g.winner = "player2" -> <<g.player2.name, "ha ganado!">>
    [] OTHER -> <<"El juego ha terminado en empate!">>

\* message ends with the sentence outcome.
EndsWith(message, outcome) ==
  /\ Len(message) >= Len(outcome)
  /\ SubSeq(message, Len(message) - Len(outcome) + 1, Len(message)) = outcome

OracleBusy(me) == me.pc \in {"move_oracle", "ai_think", "ai_gen", "ai_val"}

\* A command of handler h begins on a game whose winner is set.
CallOnFinished(h) ==
  /\ handlers[h].pc = "idle"
  /\ handlers'[h].caller = "command"
  /\ handlers'[h].pc \in {"surrender_reply", "move_reply", "move_oracle"}
  /\ games[handlers'[h].game].winner # Null

\* C13: processMove, surrender and generateAIMove on a finished session fail:
\* the session stays as it is, no request goes to the oracle, and the result
\* of processMove and surrender carries the message of how the game ended.
C13_FinishedSessionRefuses ==
  [][\A h \in Handlers :
       LET me == handlers'[h]
       IN /\ CallOnFinished(h) =>
               /\ me.pc \in {"surrender_reply", "move_reply"}
               /\ me.result = "finished" /\ ~me.success
               /\ EndsWith(me.message, StoredOutcome(games[me.game]))
               /\ SessionUntouched
          /\ handlers[h].result = "finished" /\ Step(h) =>
               /\ ~OracleBusy(me)
               /\ games' = games
          /\ handlers[h].pc = "move_reply" /\ me.pc = "ai_think" =>
               games[me.game].winner = Null]_vars

\* The player to move of a drawn game has sent a move and was told that the
\* game ended in a draw.
C13_Witness ==
  \E h \in Handlers :
    /\ handlers[h].pc = "move_reply" /\ handlers[h].result = "finished"
    /\ games[handlers[h].game].winner = "draw"
    /\ handlers[h].message # <<>>

Side(g, playerId) == IF playerId = g.player1.id THEN "player1" ELSE "player2"

\* Handler h has applied a move of playerId to its game in this step.
ClosesAsValidated(h, playerId) ==
  LET v == handlers'[h].validation
      new == games'[handlers'[h].game]
  IN /\ v.valid
     /\ v.isCheckmate => new.winner = Side(new, playerId) /\ new.endTime # Null
     /\ v.isDraw /\ ~v.isCheckmate => new.winner = "draw" /\ new.endTime # Null
     /\ ~v.isDraw /\ ~v.isCheckmate => new.winner = Null /\ new.endTime = Null

\* C14: a move whose validation reply says valid and checkmate sets winner
\* to the side of the player who moved (the oracle is player2) and sets
\* endTime; valid and draw without checkmate sets winner to draw; a move
\* sent afterwards by the player to move gets the already-finished result.
C14_TerminalMoveSetsWinner ==
  [][\A h \in Handlers :
       /\ handlers[h].pc = "move_oracle" /\ handlers'[h].result = "moved" =>
            ClosesAsValidated(h, handlers[h].user)
       /\ handlers[h].pc = "ai_val" /\ handlers'[h].result = "ai_moved" =>
            /\ ClosesAsValidated(h, AI_ID)
            /\ games[handlers[h].game].player2.id = AI_ID
       /\ MoveSubmitted(h) /\ games[handlers'[h].game].winner # Null
            /\ handlers'[h].user = PlayerToMove(games[handlers'[h].game]) =>
            handlers'[h].result = "finished" /\ handlers'[h].pc = "move_reply"]_vars

\* The oracle's own move was validated as checkmate: player2 has won.
C14_Witness ==
  \E h \in Handlers :
    /\ AIResultAt(h, "ai_moved")
    /\ handlers[h].validation.isCheckmate
    /\ games[handlers[h].game].winner = "player2"
    /\ games[handlers[h].game].endTime # Null

\* Handler h takes up a surrender of a participant of an unfinished game.
SurrenderSubmitted(h) ==
  /\ handlers[h].pc = "idle"
  /\ handlers'[h].pc = "surrender_reply"
  /\ games[handlers'[h].game].winner = Null
  /\ handlers'[h].user \in {games[handlers'[h].game].player1.id,
                            games[handlers'[h].game].player2.id}

\* C15: a participant's surrender of an unfinished game, on either player's
\* turn, adds exactly one "surrender" entry to moveHistory, sets winner to
\* the other player and sets endTime; nothing else of the session changes
\* and no request goes to the oracle.
C15_SurrenderFinishesGame ==
  [][\A h \in Handlers :
       LET me == handlers'[h]
           old == games[me.game]
           new == games'[me.game]
       IN /\ SurrenderSubmitted(h) =>
               /\ me.result = "surrendered" /\ me.success /\ me.gameOver
               /\ Len(new.moveHistory) = Len(old.moveHistory) + 1
               /\ SubSeq(new.moveHistory, 1, Len(old.moveHistory)) = old.moveHistory
               /\ Last(new.moveHistory).move = "surrender"
               /\ Last(new.moveHistory).player = me.user
               /\ new.winner = IF me.user = old.player1.id THEN "player2" ELSE "player1"
               /\ new.endTime # Null
               /\ new = [old EXCEPT !.moveHistory = new.moveHistory,
                                    !.winner = new.winner, !.endTime = new.endTime]
          /\ handlers[h].result = "surrendered" /\ Step(h) =>
               ~OracleBusy(me) /\ games' = games]_vars

\* player2 has given up on player1's turn: player1 has won.
C15_Witness ==
  \E h \in Handlers :
    LET g == games[handlers[h].game]
    IN /\ handlers[h].pc = "surrender_reply" /\ handlers[h].result = "surrendered"
       /\ handlers[h].user = g.player2.id
       /\ g.currentTurn = "player1"
       /\ g.winner = "player1"
       /\ Last(g.moveHistory).move = "surrender"

\* Handler h has got the oracle's answer to the validation of a human move.
HumanMoveAnswered(h) ==
  handlers[h].pc = "move_oracle" /\ handlers'[h].pc = "move_reply"

\* C16: a validation reply that says valid and carries no resulting position
\* counts as invalid: the session stays as it is and the player is refused.
C16_ValidWithoutPositionRejected ==
  [][\A h \in Handlers :
       /\ HumanMoveAnswered(h)
       /\ handlers'[h].validation.valid
       /\ handlers'[h].validation.fenResult = Null
       => /\ games' = games
          /\ ~handlers'[h].success
          /\ handlers'[h].result = "invalid"]_vars

\* C17: a human move that passes the finished and turn checks sends exactly
\* one request to the oracle, whatever the answer, and one that fails a
\* check sends none.
C17_OneValidationRequest ==
  [][\A h \in Handlers :
       LET me == handlers'[h]
           passes == /\ games[me.game].winner = Null
                     /\ me.user = PlayerToMove(games[me.game])
       IN /\ MoveSubmitted(h) => IF passes
                                 THEN me.pc = "move_oracle" /\ me.moveRequests = 1
                                 ELSE me.pc # "move_oracle" /\ me.moveRequests = 0
          /\ me.pc = "move_oracle" => me.moveRequests = 1
          /\ HumanMoveAnswered(h) => me.moveRequests = 1
          /\ handlers[h].pc = "move_oracle" /\ Step(h) => me.pc = "move_reply"
          /\ handlers[h].pc = "move_reply" /\ Step(h) => me.pc # "move_oracle"]_vars

\* The one request of a human move has failed and the player has the error
\* result.
C17_Witness ==
  \E h \in Handlers :
    /\ handlers[h].pc = "move_reply" /\ handlers[h].result = "error"
    /\ handlers[h].moveRequests = 1

\* C18: a human move that the oracle calls invalid, or whose request to the
\* oracle fails, leaves the session as it was and gives the player a failure
\* result; nothing of the session changes in the rest of that command.
C18_RejectedMoveLeavesSession ==
  [][\A h \in Handlers :
       LET me == handlers'[h]
       IN /\ HumanMoveAnswered(h) /\ ~me.validation.valid =>
               /\ me.result \in {"invalid", "error"}
               /\ ~me.success
               /\ games' = games
          /\ HumanMoveAnswered(h) /\ me.result \in {"invalid", "error"} =>
               ~me.validation.valid /\ games' = games
          /\ handlers[h].result \in {"invalid", "error"} /\ Step(h) =>
               ~OracleBusy(me) /\ games' = games]_vars

\* The oracle has called the first move of a game invalid.
C18_Witness ==
  \E h \in Handlers :
    /\ handlers[h].pc = "move_reply" /\ handlers[h].result = "invalid"
    /\ handlers[h].validation.reason = "movimiento ilegal"
    /\ games[handlers[h].game].moveHistory = <<>>
    /\ games[handlers[h].game].currentTurn = "player1"

\* The resulting position of validation result v is there and is not a
\* full one: fewer than eight ranks or fewer than six fields.
DamagedPosition(v) ==
  /\ v.valid
  /\ v.fenResult \in DOMAIN FenTable
  /\ Len(FenTable[v.fenResult].position) < 8 \/ FenTable[v.fenResult].fields < 6

\* The oracle has answered the validation of a move, a player's or its own.
MoveAnswered(h) ==
  \/ HumanMoveAnswered(h)
  \/ handlers[h].pc = "ai_val" /\ handlers'[h].pc \in {"ai_think", "ai_reply"}

\* C19: a validated move whose resulting position cannot be decoded in full
\* changes nothing of the session: board, castling flags, en-passant target,
\* clocks, last move, moveHistory and currentTurn stay as they were.
C19_DamagedPositionChangesNothing ==
  [][\A h \in Handlers :
       MoveAnswered(h) /\ DamagedPosition(handlers'[h].validation) => games' = games]_vars

\* C20: in every state a game reaches by applied moves, decoding the
\* encoding of its chess state gives the state back: updateBoardFromFEN of
\* generateFEN leaves board, castling flags, en-passant target and both
\* clocks as they are.
C20_EncodeDecodeRoundTrip ==
  \A i \in DOMAIN games : UpdateBoardFromFEN(games[i].state, GenerateFEN(games[i])) = games[i].state

\* The five fields of a chess state that a position string carries.
PositionOf(st) ==
  <<st.board, st.castlingRights, st.enPassantTarget, st.halfMoveClock, st.fullMoveNumber>>

\* Handler h has applied a move whose validation carries a position string.
AppliedWithPosition(h) ==
  /\ MoveAnswered(h)
  /\ handlers'[h].validation.valid
  /\ handlers'[h].validation.fenResult \in DOMAIN FenTable

\* C21: after a validated move is applied, by player1 or by player2, the
\* board, the castling flags, the en-passant target and both clocks of the
\* session are the ones decoded from the resulting position of the
\* validation reply.
C21_PositionIsDecoded ==
  [][\A h \in Handlers :
       AppliedWithPosition(h) =>
         LET id == handlers'[h].game
             fen == FenTable[handlers'[h].validation.fenResult]
         IN PositionOf(games'[id].state) = PositionOf(UpdateBoardFromFEN(games[id].state, fen))]_vars

\* C22: what an accepted oracle move writes is a function of the session,
\* the move token and the validation result alone: whatever the generation
\* reply said of check, checkmate, draw, capture or resulting position, the
\* session after the move and the game-over outcome are those of applying
\* the token with the validation result.
C22_OnlyValidationWritten ==
  [][\A h \in Handlers :
       handlers[h].pc = "ai_val" /\ handlers'[h].result = "ai_moved" =>
         LET me == handlers'[h]
             old == games[me.game]
         IN /\ games'[me.game] =
                 ApplyValidatedMove(old, old.player2.id, me.genResult.moveText, me.validation)
            /\ me.gameOver = me.validation.gameOver
            /\ IsFinished(games'[me.game]) <=> me.validation.gameOver]_vars

\* An oracle move was applied whose generation reply claimed a capture, a
\* checkmate and another resulting position than the validation reply: the
\* board is the one of the validation reply and the game goes on.
C22_Witness ==
  \E h \in Handlers :
    /\ AIResultAt(h, "ai_moved")
    /\ handlers[h].genResult.isCapture
    /\ handlers[h].genResult.gameOver
    /\ handlers[h].validation.fenResult \in DOMAIN FenTable
    /\ handlers[h].genResult.fenResult # handlers[h].validation.fenResult
    /\ ~handlers[h].gameOver
    /\ games[handlers[h].game].state.board =
         UpdateBoardFromFEN(InitialChessState,
                            FenTable[handlers[h].validation.fenResult]).board

\* What the program holds for channel c: whether the registry has a session
\* for it, that session, and the file of the channel.
LocalOf(gs, as, d, c) ==
  <<c \in DOMAIN as,
    IF c \in DOMAIN as THEN gs[as[c]] ELSE DefaultGame,
    IF c \in DOMAIN d THEN <<d[c]>> ELSE <<>> >>

\* A step of the handler of one channel leaves the session and the file of
\* every other channel, the command in flight there and the game in its
\* hands as they are.
OtherChannelsUntouched(h) ==
  handlers'[h] # handlers[h] =>
    /\ \A c \in channels \ {ChannelOf[h]} :
         LocalOf(games', activeSessions', disk', c) = LocalOf(games, activeSessions, disk, c)
    /\ \A o \in Handlers \ {h} :
         /\ handlers'[o] = handlers[o]
         /\ handlers[o].pc # "idle" /\ handlers[o].game \in DOMAIN games =>
              /\ handlers[o].game \in DOMAIN games'
              /\ games'[handlers[o].game] = games[handlers[o].game]

\* The session and the file of a channel come from the commands of that
\* channel: the games of c1 are u1's and those of c2 are u2's, moves
\* included.
OwnSessions ==
  \A c \in channels :
    /\ HasSession(c) =>
         /\ SessionOf(c).player1.id = ChannelInitiator[c]
         /\ \A k \in DOMAIN SessionOf(c).moveHistory :
              SessionOf(c).moveHistory[k].player \in {ChannelInitiator[c], AI_ID}
    /\ c \in DOMAIN disk =>
         /\ disk[c].doc.player1.id = ChannelInitiator[c]
         /\ \A k \in DOMAIN disk[c].doc.moveHistory :
              disk[c].doc.moveHistory[k].player \in {ChannelInitiator[c], AI_ID}

\* C23: commands of different channels are independent: in every
\* interleaving of the commands of c1 and c2, no step of a command of one
\* channel changes the session or the file of the other, a start is refused
\* or accepted by the session of its own channel alone, and each channel's
\* session and file hold what that channel's commands wrote.
C23_ChannelsIndependent ==
  /\ []OwnSessions
  /\ [][\A h \in Handlers : OtherChannelsUntouched(h) /\ StartOutcome(h)]_vars

\* The commands of the two channels are interleaved: c1's game has the
\* player's and the oracle's move on file while, in c2, the oracle's answer
\* to the player's first move waits for its validation.
C23_Witness ==
  /\ handlers["h2"].pc = "ai_val"
  /\ "c1" \in DOMAIN disk /\ Len(disk["c1"].doc.moveHistory) = 2
  /\ HasSession("c1") /\ SessionOf("c1").currentTurn = "player1"
  /\ HasSession("c2") /\ Len(SessionOf("c2").moveHistory) = 1
  /\ "c2" \in DOMAIN disk /\ disk["c2"].doc.moveHistory = <<>>

\* C24: the commands of one channel do not interleave on its session: of
\* two moves that the player to move sends, the second while the first
\* waits for the oracle, at most one is applied for that turn. A human move
\* is applied only on the turn of its sender, and moveHistory never holds
\* two moves in a row of one player.
C24_OneMovePerTurn ==
  /\ [](\A i \in DOMAIN games :
          \A k \in 1..(Len(games[i].moveHistory) - 1) :
            LET first == games[i].moveHistory[k]
                second == games[i].moveHistory[k + 1]
            IN first.move # "surrender" /\ second.move # "surrender" =>
                 first.player # second.player)
  /\ [][\A h \in Handlers :
         handlers[h].pc = "move_oracle" /\ handlers'[h].result = "moved" =>
           handlers[h].user = PlayerToMove(games[handlers[h].game])]_vars

\* Game g was given up: its winner is set and moveHistory holds the
\* surrender.
GivenUp(g) ==
  /\ g.winner # Null
  /\ \E k \in DOMAIN g.moveHistory : g.moveHistory[k].move = "surrender"

\* C25: a session does not change once its winner is set: after a surrender
\* has finished the game no step, the answer to a human move or to an oracle
\* move that was under way included, adds to moveHistory or changes
\* currentTurn, winner, endTime or the chess state.
C25_FinishedSessionImmutable ==
  [][\A i \in (DOMAIN games) \cap (DOMAIN games') :
       GivenUp(games[i]) => games'[i] = games[i]]_vars

\* Handler h takes up a text that is no start request.
OtherTextArrives(h) ==
  handlers[h].pc = "idle" /\ handlers'[h].pc # "idle" /\ handlers'[h].gameType = ""

\* C26: a text that is no start request, on a channel for which no session
\* is active, gets the value that says it is no game command: no request
\* goes to the oracle and the registry, the sessions and the files stay as
\* they are, until the call has returned.
C26_NotAGameCommand ==
  [][\A h \in Handlers :
       /\ OtherTextArrives(h) /\ ~HasSession(handlers'[h].channel) =>
            /\ handlers'[h].pc = "return"
            /\ handlers'[h].result = "not_game_command"
            /\ SessionUntouched
       /\ handlers[h].pc = "return" /\ Step(h) =>
            /\ handlers'[h].pc = "idle"
            /\ SessionUntouched]_vars

\* A text arrived on a channel whose game is over and gone from the
\* registry: the file of the finished game is there, no session is.
C26_Witness ==
  \E h \in Handlers :
    /\ handlers[h].pc = "return"
    /\ ~HasSession(handlers[h].channel)
    /\ handlers[h].channel \in DOMAIN disk
    /\ disk[handlers[h].channel].doc.winner # Null

\* C27: a start of the process restores every file that can be read and
\* names a registered game type, each as the session its document
\* describes, and skips a file that cannot be read or names another type:
\* the files after it are restored all the same.
C27_ReloadSkipsBadDocuments ==
  [][Restart =>
       \A c \in channels :
         IF c \in DOMAIN disk' /\ disk'[c].readable /\ disk'[c].doc.type \in GAME_TYPES
         THEN /\ c \in DOMAIN activeSessions'
              /\ games'[activeSessions'[c]] = LoadState(disk'[c].doc)
         ELSE c \notin DOMAIN activeSessions']_vars

\* The saved game of c2 is in the registry, which only a start of the
\* process puts there, and the file of c1, of a game type the program does
\* not know, was skipped.
C27_Witness ==
  /\ AllIdle
  /\ HasSession("c2") /\ SessionOf("c2") = LoadState(DefaultDocument)
  /\ "c1" \in DOMAIN disk /\ disk["c1"].doc.type \notin GAME_TYPES
  /\ ~HasSession("c1")

\* The validation reply and the generation reply of a run whose oracle has
\* one of each.
TheValidationReply == CHOOSE reply \in oracle.validation : TRUE
TheGenerationReply == CHOOSE reply \in oracle.generation : TRUE

\* C28: the parsers give a result for every reply text, with fields missing
\* or with lines they do not ask for. The result of parseMoveResponse is
\* valid only if the reply has the validity field and it says true, and
\* parseAIResponse gives a candidate only if the reply has a move token; a
\* reply without one is a rejected attempt.
C28_ParsersDefaultToInvalid ==
  \A h \in Handlers :
    LET me == handlers[h]
    IN /\ me.validation.valid \in BOOLEAN /\ me.genResult.valid \in BOOLEAN
       /\ me.pc = "move_reply" /\ me.result \in {"moved", "invalid"} =>
            /\ me.validation.valid => TheValidationReply.valido = "true"
            /\ TheValidationReply.valido = Absent => ~me.validation.valid
            /\ me.result = "moved" <=> me.validation.valid
            /\ TheValidationReply.razon = Absent =>
                 me.validation.reason = "Movimiento invalido"
            /\ TheValidationReply.normalizado = Absent =>
                 me.validation.normalizedMove = Null
       /\ me.pc = "ai_val" =>
            /\ TheGenerationReply.movimiento # Absent
            /\ me.genResult.valid
            /\ me.genResult.moveText = ToLowerCase(TheGenerationReply.movimiento)
       /\ me.pc \in {"ai_think", "ai_reply"} /\ TheGenerationReply.movimiento = Absent =>
            /\ me.result # "ai_moved"
            /\ \A k \in DOMAIN me.historialIntentos :
                 me.historialIntentos[k].moveText = "formato_invalido"

\* A reply that names a normalized move and a resulting position and has no
\* validity field, with a line the parser does not ask for: the move is
\* refused.
C28_Witness ==
  \E h \in Handlers :
    /\ handlers[h].pc = "move_reply" /\ handlers[h].result = "invalid"
    /\ TheValidationReply.valido = Absent
    /\ TheValidationReply.fen # Absent
    /\ "nota" \in DOMAIN TheValidationReply
    /\ handlers[h].validation.normalizedMove = "e2e4"

\* new.moveHistory is old.moveHistory with one more entry: a move of
\* playerId with the text moveText and the normalized move of validation v.
OneMoveAppended(old, new, playerId, moveText, v) ==
  /\ Len(new.moveHistory) = Len(old.moveHistory) + 1
  /\ SubSeq(new.moveHistory, 1, Len(old.moveHistory)) = old.moveHistory
  /\ Last(new.moveHistory).player = playerId
  /\ Last(new.moveHistory).move = moveText
  /\ Last(new.moveHistory).normalizedMove = v.normalizedMove

\* Every applied move, a player's or the oracle's, adds exactly one entry
\* to moveHistory, and no other step of the command adds one.
AppliedOnce(h) ==
  LET me == handlers'[h]
      old == games[handlers[h].game]
      new == games'[handlers[h].game]
  IN /\ HumanMoveAnswered(h) /\ me.result = "moved" =>
          OneMoveAppended(old, new, handlers[h].user, handlers[h].moveText, me.validation)
     /\ handlers[h].pc = "ai_val" /\ me.result = "ai_moved" =>
          OneMoveAppended(old, new, old.player2.id, me.genResult.moveText, me.validation)
     /\ Step(h) /\ ~(me.result \in {"moved", "ai_moved"} /\ MoveAnswered(h)) =>
          \A i \in (DOMAIN games) \cap (DOMAIN games') :
            games'[i].moveHistory = games[i].moveHistory

\* C29 as stated: a validated human move on a fresh session is applied
\* exactly once, and afterwards currentTurn is player2 and moveHistory has
\* exactly one entry, of the sender, with the text sent and the normalized
\* move of the validation reply; each applied move adds exactly one such
\* entry.
C29_FirstMoveHandsOver ==
  [][\A h \in Handlers :
       /\ AppliedOnce(h)
       /\ HumanMoveAnswered(h) /\ handlers'[h].result = "moved"
            /\ Fresh(games[handlers[h].game]) =>
            /\ games'[handlers[h].game].currentTurn = "player2"
            /\ Len(games'[handlers[h].game].moveHistory) = 1]_vars

\* C29 with the move that ends the game: a validated human move on a fresh
\* session is applied exactly once, and afterwards moveHistory has exactly
\* one entry, of the sender, with the text sent and the normalized move of
\* the validation reply; currentTurn is player2 when the reply does not end
\* the game and stays player1 when it does; each applied move adds exactly
\* one such entry.
C29_FirstMoveAppliedOnce ==
  [][\A h \in Handlers :
       /\ AppliedOnce(h)
       /\ HumanMoveAnswered(h) /\ handlers'[h].result = "moved"
            /\ Fresh(games[handlers[h].game]) =>
            /\ games'[handlers[h].game].currentTurn =
                 IF handlers'[h].validation.gameOver THEN "player1" ELSE "player2"
            /\ Len(games'[handlers[h].game].moveHistory) = 1]_vars

\* The first move of a game was validated and applied: the one entry of
\* moveHistory is the sender's and the turn is player2's.
C29_Witness ==
  \E h \in Handlers :
    LET g == games[handlers[h].game]
    IN /\ handlers[h].pc = "move_reply" /\ handlers[h].result = "moved"
       /\ Len(g.moveHistory) = 1
       /\ g.moveHistory[1].player = handlers[h].user
       /\ g.moveHistory[1].move = "e2e4"
       /\ g.moveHistory[1].normalizedMove = handlers[h].validation.normalizedMove
       /\ g.currentTurn = "player2"
       /\ g.state.board = UpdateBoardFromFEN(InitialChessState, FenAfterE4).board

\* The prompt of handler h names the attempts in rejected, in their order,
\* each with its move text and its reason.
PromptLists(prompt, rejected) ==
  /\ Len(prompt.intentosFallidos) = Len(rejected)
  /\ \A k \in 1..Len(rejected) :
       /\ prompt.intentosFallidos[k].index = k
       /\ prompt.intentosFallidos[k].moveText = rejected[k].moveText
       /\ prompt.intentosFallidos[k].reason = rejected[k].reason

\* What one step of a generateAIMove call does to its list of rejected
\* attempts: a reply without a move token and a candidate that validation
\* refuses each add one entry, and nothing else changes the list.
RejectionsRecorded(h) ==
  LET me == handlers[h]
      next == handlers'[h]
  IN /\ me.pc = "ai_gen" /\ next.pc = "ai_think" =>
          /\ next.historialIntentos =
               Append(me.historialIntentos,
                      [moveText |-> "formato_invalido",
                       reason |-> "La IA no genero un movimiento valido"])
          /\ next.intentos = me.intentos + 1
     /\ me.pc = "ai_val" /\ next.pc = "ai_think" =>
          /\ next.historialIntentos =
               Append(me.historialIntentos,
                      [moveText |-> me.genResult.moveText,
                       reason |-> next.validation.reason])
          /\ next.intentos = me.intentos + 1
     /\ InAILoop(h) /\ next.pc \in {"ai_gen", "ai_val"} =>
          /\ next.historialIntentos = me.historialIntentos
          /\ next.intentos = me.intentos

\* C30: in one generateAIMove call the generation prompt of attempt k, for
\* k from 1 to 3, names exactly the k - 1 attempts rejected before it, in
\* their order, each with its move text and the reason of its rejection; a
\* reply without a move token counts as one rejected attempt and the loop
\* goes on to the next attempt.
C30_PromptListsRejections ==
  /\ [](\A h \in Handlers :
          handlers[h].pc = "ai_gen" =>
            /\ handlers[h].intentos \in 1..MAX_INTENTOS
            /\ handlers[h].genRequests = handlers[h].intentos
            /\ Len(handlers[h].historialIntentos) = handlers[h].intentos - 1
            /\ PromptLists(handlers[h].prompt, handlers[h].historialIntentos))
  /\ [][\A h \in Handlers : RejectionsRecorded(h)]_vars

\* The third prompt of a call is out: it names a reply without a move token
\* first and a candidate that validation refused second.
C30_Witness ==
  \E h \in Handlers :
    /\ handlers[h].pc = "ai_gen"
    /\ handlers[h].intentos = MAX_INTENTOS
    /\ Len(handlers[h].prompt.intentosFallidos) = 2
    /\ handlers[h].prompt.intentosFallidos[1].moveText = "formato_invalido"
    /\ handlers[h].prompt.intentosFallidos[2].moveText = "e7e5"
    /\ handlers[h].prompt.intentosFallidos[2].reason = "movimiento ilegal"

\* A step of a command, as opposed to a start of the process.
CommandStep == \E h \in Handlers : Begin(h) \/ Step(h)

\* C31: through every sequence of commands on a session moveHistory only
\* grows at its end: it never gets shorter and the entries it has stay where
\* and what they are; and while winner is null currentTurn is player1 or
\* player2.
C31_HistoryOnlyGrows ==
  /\ [](\A i \in DOMAIN games :
          games[i].winner = Null => games[i].currentTurn \in {"player1", "player2"})
  /\ [][CommandStep =>
         \A i \in (DOMAIN games) \cap (DOMAIN games') :
           /\ Len(games'[i].moveHistory) >= Len(games[i].moveHistory)
           /\ SubSeq(games'[i].moveHistory, 1, Len(games[i].moveHistory)) =
                games[i].moveHistory]_vars

\* A game of two moves was given up: the surrender is the third entry, after
\* the player's move and the oracle's.
C31_Witness ==
  \E i \in DOMAIN games :
    /\ Len(games[i].moveHistory) = 3
    /\ games[i].moveHistory[1].move = "e2e4"
    /\ games[i].moveHistory[2].player = AI_ID
    /\ games[i].moveHistory[3].move = "surrender"
    /\ games[i].winner = "player2"

\* C32: every entry of moveHistory has the id of the player who acted, the
\* text that was sent, a normalized move and a time stamp (the entry of a
\* surrender is let off the normalized move), and an entry is there only
\* for a validated move that was applied or for a surrender.
C32_MovesAreComplete ==
  /\ [](\A i \in DOMAIN games :
          \A k \in DOMAIN games[i].moveHistory :
            LET entry == games[i].moveHistory[k]
            IN /\ entry.player \in {games[i].player1.id, games[i].player2.id}
               /\ entry.move # ""
               /\ entry.timestamp = ToISOString(DateNow)
               /\ entry.move # "surrender" => entry.normalizedMove \notin {Null, Undefined})
  /\ [][\A h \in Handlers :
         \A i \in (DOMAIN games) \cap (DOMAIN games') :
           games'[i].moveHistory # games[i].moveHistory =>
             \/ Last(games'[i].moveHistory).move = "surrender"
             \/ MoveAnswered(h) /\ handlers'[h].validation.valid]_vars

\* Handler h takes up a surrender phrase, sent to an unfinished game by a
\* user who is neither of its two players.
OutsiderSurrenders(h) ==
  /\ handlers[h].pc = "idle"
  /\ handlers'[h].pc = "surrender_reply"
  /\ games[handlers'[h].game].winner = Null
  /\ handlers'[h].user \notin {games[handlers'[h].game].player1.id,
                               games[handlers'[h].game].player2.id}

\* C38: a surrender phrase from a user who is not one of the two players of
\* an unfinished game gets the not-participating answer; from the moment the
\* phrase is taken up until that command is over the session, the registry
\* and the persisted document stay as they are and nothing is saved.
C38_OutsiderCannotSurrender ==
  /\ [][\A h \in Handlers :
          OutsiderSurrenders(h) =>
            /\ SessionUntouched
            /\ handlers'[h].result = "not_participant"
            /\ ~handlers'[h].gameOver]_vars
  /\ [][\A h \in Handlers :
          handlers[h].pc = "surrender_reply" /\ handlers[h].result = "not_participant"
            /\ Step(h) =>
              SessionUntouched /\ handlers'[h].pc = "idle"]_vars

\* The outsider's surrender phrase is being answered while the game, with a
\* move on its record, goes on.
C38_Witness ==
  \E h \in Handlers :
    /\ handlers[h].pc = "surrender_reply"
    /\ handlers[h].result = "not_participant"
    /\ handlers[h].user = Outsider
    /\ games[handlers[h].game].winner = Null
    /\ Len(games[handlers[h].game].moveHistory) = 1

\* C37: in every reachable state the board of every chess session is a grid
\* of exactly 8 ranks of exactly 8 squares each, whatever resulting
\* positions the oracle put into its validated replies.
C37_BoardIsEightByEight ==
  \A i \in DOMAIN games :
    /\ Len(games[i].state.board) = 8
    /\ \A r \in 1..8 : Len(games[i].state.board[r]) = 8

\* Handler h takes up a command, other than a surrender, of the human player
\* of an unfinished session against the oracle in which it is the oracle's
\* turn and which is on file as it is: the state an exhausted generation has
\* saved or a reload has restored.
HumanAsksOnOracleTurn(h) ==
  /\ handlers[h].pc = "idle"
  /\ handlers'[h].pc \notin {"idle", "surrender_reply"}
  /\ handlers'[h].caller = "command"
  /\ handlers'[h].game \in DOMAIN games
  /\ LET g == games[handlers'[h].game]
     IN /\ IsAITurn(g)
        /\ ~IsFinished(g)
        /\ handlers'[h].user = g.player1.id
        /\ Persisted(disk, handlers'[h].channel, g)

\* C36: an unfinished session against the oracle is never stuck: when it is
\* the oracle's turn and no generation is under way, a command of the human
\* player starts a new oracle-move attempt, so that a further move can be
\* applied without a surrender.
C36_OracleTurnIsResumed ==
  [][\A h \in Handlers : HumanAsksOnOracleTurn(h) => handlers'[h].pc = "ai_think"]_vars

\* The line of a rendering that carries rank number r, and the column of
\* the legend line in which file f stands.
RowLabelled(output, r) ==
  CHOOSE k \in DOMAIN output : output[k][1] = NumberToString(Num(r))
ColumnUnder(output, f) ==
  CHOOSE k \in DOMAIN output[1] : output[1][k] = FileLegend[f]

\* C39: in a rendered board, in the white and in the black orientation, the
\* piece printed in the row labelled r, in the column under the legend of
\* file f, is the glyph of the piece that the grid holds on the square of
\* file f and rank r, and all lines of the output are equally wide.
C39_LegendsNameTheSquares ==
  rendering.output # <<>> =>
    /\ \A r \in 1..8, f \in 1..8 :
         rendering.output[RowLabelled(rendering.output, r)][ColumnUnder(rendering.output, f)]
           = PieceSymbols(rendering.unicode)[rendering.board[9 - r][f]]
    /\ \A k \in DOMAIN rendering.output :
         Len(rendering.output[k]) = Len(rendering.output[1])

\* C33: moderation is for administrators only: every ban, kick and timeout
\* that was carried out was asked for by an administrator and has a target;
\* a step carries one out only for a request whose requester had the
\* permission and whose target was identified, and a request of a user
\* without the permission is answered with the denial and nothing more.
C33_ModerationForAdministratorsOnly ==
  /\ [](\A k \in DOMAIN executed :
          executed[k].requester \in Administrators /\ executed[k].target \in Users)
  /\ [][executed' # executed =>
          /\ moderation.requester \in Administrators
          /\ moderation.hasPermission
          /\ moderation.targetUser \in Users
          /\ executed' = Append(executed,
                                [action |-> IF moderation.type = "mute" THEN "timeout"
                                            ELSE moderation.type,
                                 target |-> moderation.targetUser,
                                 requester |-> moderation.requester])]_vars
  /\ [][moderation.requester \notin Administrators /\ moderation.pc # "idle" =>
          moderation'.pc = "idle" /\ executed' = executed]_vars

\* An administrator's ban has been carried out and a user without the
\* permission, who asked for a kick of a named target, gets the denial.
C33_Witness ==
  /\ Len(executed) = 1
  /\ executed[1].action = "ban"
  /\ moderation.pc = "permission_denied"
  /\ moderation.requester = User2
  /\ moderation.type = "kick"
  /\ moderation.targetUser = User1

\* The two secrets of a configuration object.
Secrets(cfg) == <<cfg.bot.token, cfg.ia.apiKey>>

\* C34: a command of a user who is no administrator changes nothing of the
\* configuration; no command changes bot.token or ia.apiKey, in either
\* module's object or in a readable file; and a command whose save failed
\* leaves the configuration objects of both modules as they were before
\* it, the file holding no other readable configuration than before.
C34_ConfigurarIsGuarded ==
  /\ [](/\ Secrets(config) = Secrets(InitialConfig)
        /\ Secrets(iaConfig) = Secrets(InitialConfig)
        /\ configFile.readable => Secrets(configFile.doc) = Secrets(InitialConfig))
  /\ [][configReply'.user \notin Administrators =>
          config' = config /\ iaConfig' = iaConfig /\ configFile' = configFile]_vars
  /\ [][configReply'.text = "save_failed" =>
          /\ config' = config
          /\ iaConfig' = iaConfig
          /\ configFile' = configFile \/ ~configFile'.readable]_vars
  /\ [][config' # config => configReply'.text = "updated"]_vars

\* After a change that was saved, the write of the next change failed and
\* left the file cut short; the value in memory is the one saved before.
C34_Witness ==
  /\ configReply.text = "save_failed"
  /\ configReply.args = <<"bot", "status", "online">>
  /\ config.bot.status = "busy"
  /\ iaConfig.bot.status = "busy"
  /\ ~configFile.readable

\* The messages of a sequence that are no commands.
RECURSIVE NonCommands(_)
NonCommands(seq) ==
  IF seq = <<>> THEN <<>>
  ELSE (IF IsCommandText(Head(seq).content) THEN <<>> ELSE <<Head(seq)>>)
         \o NonCommands(Tail(seq))

\* C40: whenever no registration is under way, the messageCount of the
\* channel is the number of messages registered for it and its recent
\* messages are the latest registered messages that are no commands, at
\* most 50 of them, also when two registrations of the channel overlapped.
C40_NoLostRegistration ==
  (\A r \in Registrars : registrations[r].pc = "idle") /\ registered # <<>> =>
    /\ channelFile # <<>>
    /\ channelFile[1].messageCount = Len(registered)
    /\ channelFile[1].recentMessages = SliceLast(NonCommands(registered), RECENT_MESSAGES)

\* The file of the user carries the mark.
Marked(file) == file # <<>> /\ file[1].needsAnalysis

====
